---- MODULE Spec2Model ----
(***************************************************************************)
(* Model of embedded_elt_builder: the pipeline generator                   *)
(* (pipeline_generator.py), the CLI commands (cli/scaffold.py,             *)
(* cli/toggle.py, cli/delete.py, cli/validate.py) and the HTTP handlers    *)
(* (web/app_enhanced.py) acting on the pipelines/<tool>/<name>/ tree.      *)
(*                                                                         *)
(* Text that the code converts (lower(), upper(), split(), strip()) is a   *)
(* sequence of one-character strings; other text is a TLA+ string.         *)
(* A Python dict that the code dumps to YAML is an ordered mapping         *)
(* [keys, val]: yaml.dump(sort_keys=False) writes the insertion order and  *)
(* yaml.safe_load reads it back in file order.                             *)
(***************************************************************************)
EXTENDS Integers, Sequences, FiniteSets, TLC

VARIABLES
    fs,        \* the pipelines tree: fs[tool][name] is a directory or NoDir
    gen,       \* the create_pipeline call in flight (its caller, request, step)
    last,      \* what the most recent handler reported to its caller
    today,     \* datetime.now() as a day number
    nops,      \* handlers started so far
    fserr,     \* some handler has met a filesystem error
    req,       \* pure-function harness: the request under generation
    out,       \* pure-function harness: what the generator returned
    vtree,     \* validate harness: the tree being scanned
    vrun,      \* validate harness: position and result of the scan
    cli        \* command harnesses: where each running command stands

vars == <<fs, gen, last, today, nops, fserr, req, out, vtree, vrun, cli>>
mainVars == <<fs, gen, last, today, nops, fserr>>
genVars == <<req, out>>
valVars == <<vtree, vrun, cli>>

-----------------------------------------------------------------------------
(* Bounds                                                                  *)

\* Depth of the interpreter's call stack left when the generator is entered.
MaxStack == 3
\* Handlers started in one behaviour of Spec.
MaxOps == 3
\* Latest day, counted from the first entry of Dates, on which SpecGen calls
\* the generator.
MaxDays == 1

-----------------------------------------------------------------------------
(* Text                                                                    *)

NONE == "None"

UpperChars == <<"A","B","C","D","E","F","G","H","I","J","K","L","M",
                "N","O","P","Q","R","S","T","U","V","W","X","Y","Z">>
LowerChars == <<"a","b","c","d","e","f","g","h","i","j","k","l","m",
                "n","o","p","q","r","s","t","u","v","w","x","y","z">>

LowerChar(c) ==
    IF \E i \in DOMAIN UpperChars : UpperChars[i] = c
    THEN LowerChars[CHOOSE i \in DOMAIN UpperChars : UpperChars[i] = c]
    ELSE c

UpperChar(c) ==
    IF \E i \in DOMAIN LowerChars : LowerChars[i] = c
    THEN UpperChars[CHOOSE i \in DOMAIN LowerChars : LowerChars[i] = c]
    ELSE c

\* str.lower()
Lower(s) == [i \in DOMAIN s |-> LowerChar(s[i])]
\* str.upper()
Upper(s) == [i \in DOMAIN s |-> UpperChar(s[i])]

RECURSIVE LStrip(_)
LStrip(s) == IF s # <<>> /\ Head(s) = " " THEN LStrip(Tail(s)) ELSE s

RECURSIVE RStrip(_)
RStrip(s) ==
    IF s # <<>> /\ s[Len(s)] = " " THEN RStrip(SubSeq(s, 1, Len(s) - 1)) ELSE s

\* str.strip()
Strip(s) == RStrip(LStrip(s))

\* str.split(','): the pieces between commas, empty pieces kept
RECURSIVE SplitComma(_, _)
SplitComma(s, cur) ==
    IF s = <<>> THEN <<cur>>
    ELSE IF Head(s) = "," THEN <<cur>> \o SplitComma(Tail(s), <<>>)
    ELSE SplitComma(Tail(s), Append(cur, Head(s)))

S_github == <<"g","i","t","h","u","b">>
S_postgres == <<"p","o","s","t","g","r","e","s">>
S_mysql == <<"m","y","s","q","l">>
S_mongodb == <<"m","o","n","g","o","d","b">>
S_mssql == <<"m","s","s","q","l">>
S_oracle == <<"o","r","a","c","l","e">>
S_rest_api == <<"r","e","s","t","_","a","p","i">>
S_kafka == <<"k","a","f","k","a">>
S_snowflake == <<"s","n","o","w","f","l","a","k","e">>
S_bigquery == <<"b","i","g","q","u","e","r","y">>
S_duckdb == <<"d","u","c","k","d","b">>
S_users == <<"u","s","e","r","s">>
S_orders == <<"o","r","d","e","r","s">>
S_GitHub == <<"G","i","t","H","u","b">>
S_Postgres == <<"P","o","s","t","g","r","e","s">>
S_MYSQL == <<"M","Y","S","Q","L">>
S_CSV == <<"C","S","V">>
S_public_dot == <<"p","u","b","l","i","c",".">>
S_dot == <<".">>
S_comma == <<",">>
S_space == <<" ">>
S_users_orders == S_users \o S_comma \o S_orders
S_users_sp_orders == S_users \o S_comma \o S_space \o S_orders \o S_space

\* Truthiness of an Optional[str]
Truthy(s) == s # NONE /\ s # ""

-----------------------------------------------------------------------------
(* Dicts                                                                   *)

EmptyDict == [k \in {} |-> TRUE]

\* dict.get(k, default)
Get(d, k, default) == IF k \in DOMAIN d THEN d[k] ELSE default

EmptyMap == [keys |-> <<>>, val |-> EmptyDict]

MapHas(m, k) == k \in DOMAIN m.val

\* m[k] = v: an existing key keeps its place, a new key goes last
MapSet(m, k, v) ==
    [keys |-> IF MapHas(m, k) THEN m.keys ELSE Append(m.keys, k),
     val |-> [x \in DOMAIN m.val \cup {k} |-> IF x = k THEN v ELSE m.val[x]]]

\* del m[k]
MapDel(m, k) ==
    [keys |-> SelectSeq(m.keys, LAMBDA x : x # k),
     val |-> [x \in DOMAIN m.val \ {k} |-> m.val[x]]]

\* m.get(k, default)
MapGet(m, k, default) == IF MapHas(m, k) THEN m.val[k] ELSE default

-----------------------------------------------------------------------------
(* pipeline_generator.py                                                   *)

\* Interpolated text is a sequence of pieces: plain strings T(s) and
\* converted texts Cs(s).  None and '' (both falsy) are the empty sequence.
T(s) == [t |-> s]
Cs(s) == [c |-> s]
NoText == <<>>

DefaultRetries == 2
DefaultRetryDelay == 30

\* PipelineRequest with the defaults of its fields.  An Optional list or
\* dict that is None is the empty one, and a description that is None is
\* the empty text: the code only tests them for truthiness.
PipelineRequest(name, source_type, destination_type) ==
    [name |-> name,
     source_type |-> source_type,
     destination_type |-> destination_type,
     source_configuration |-> EmptyDict,
     description |-> NoText,
     group_name |-> NONE,
     schedule_enabled |-> FALSE,
     cron_schedule |-> NONE,
     timezone |-> "UTC",
     partitions_enabled |-> FALSE,
     partition_type |-> NONE,
     partition_start |-> NONE,
     partition_cron |-> NONE,
     partition_keys |-> <<>>,
     owners |-> <<>>,
     tags |-> EmptyDict,
     kinds |-> <<>>,
     retries |-> DefaultRetries,
     retry_delay |-> DefaultRetryDelay,
     retry_backoff |-> "LINEAR",
     retry_jitter |-> NONE,
     write_disposition |-> "append",
     incremental_enabled |-> FALSE,
     cursor_field |-> NONE,
     cursor_initial_value |-> NONE,
     partition_frequency |-> "@daily",
     file_format |-> "parquet",
     schema_override |-> NONE]

api_sources ==
    {S_github,
     <<"s","t","r","i","p","e">>,
     <<"s","h","o","p","i","f","y">>,
     <<"h","u","b","s","p","o","t">>,
     <<"s","a","l","e","s","f","o","r","c","e">>,
     <<"g","o","o","g","l","e","_","a","n","a","l","y","t","i","c","s">>,
     <<"f","a","c","e","b","o","o","k","_","a","d","s">>,
     <<"g","o","o","g","l","e","_","a","d","s">>,
     <<"s","l","a","c","k">>,
     <<"n","o","t","i","o","n">>,
     <<"a","i","r","t","a","b","l","e">>,
     <<"a","s","a","n","a">>,
     <<"j","i","r","a">>,
     <<"z","e","n","d","e","s","k">>,
     <<"i","n","t","e","r","c","o","m">>,
     <<"m","i","x","p","a","n","e","l">>,
     <<"s","e","g","m","e","n","t">>}

db_sources == {S_postgres, S_mysql, S_mongodb, S_mssql, S_oracle}

storage_sources ==
    {<<"s","3">>,
     <<"g","c","s">>,
     <<"a","z","u","r","e","_","b","l","o","b">>,
     <<"c","s","v">>,
     <<"j","s","o","n">>,
     <<"p","a","r","q","u","e","t">>}

\* choose_tool comparing the source name as spelled
choose_tool_as_spelled(source_type, destination_type) ==
    IF source_type \in api_sources THEN "dlt"
    ELSE IF source_type \in storage_sources THEN "dlt"
    ELSE IF source_type \in db_sources THEN "sling"
    ELSE "dlt"

choose_tool(source_type, destination_type) ==
    IF Lower(source_type) \in api_sources THEN "dlt"
    ELSE IF Lower(source_type) \in storage_sources THEN "dlt"
    ELSE IF Lower(source_type) \in db_sources THEN "sling"
    ELSE "dlt"

\* json.loads on the texts the model supplies as advanced_config
J_empty == "{}"
J_resources == "{\"resources\": [{\"name\": \"users\"}]}"
J_truncated == "{\"resources\": ["
J_words == "not json"


JsonValid(text) == text \in {J_empty, J_resources}

\* advanced_config['resources'][0].get('name', resource_name) when the
\* parsed object has a non-empty resources list, else resource_name
JsonFirstResourceName(text, resource_name) ==
    IF text = J_resources THEN "users" ELSE resource_name

RecursionError == [kind |-> "raised", error |-> "RecursionError"]

Raised(x) == x.kind = "raised"

\* request.description or <default sentence>
DocLine(request, default) ==
    IF request.description # NoText THEN request.description ELSE default

\* request.schema_override or <default dataset>
DatasetName(request, default) ==
    IF Truthy(request.schema_override) THEN <<T(request.schema_override)>>
    ELSE default

generate_github_pipeline(request) ==
    LET config == request.source_configuration
        repo_owner == Get(config, "repo_owner", "REPO_OWNER")
        repo_name == Get(config, "repo_name", "REPO_NAME")
        resources == Get(config, "resources", <<"issues", "pull_requests">>)
    IN [kind |-> "text",
        template |-> "github",
        has_run |-> TRUE,
        name |-> request.name,
        doc |-> DocLine(request, <<T("Load GitHub data from "), T(repo_owner),
                                   T("/"), T(repo_name), T(" to "),
                                   Cs(request.destination_type)>>),
        destination |-> request.destination_type,
        dataset_name |-> DatasetName(request, <<T("github_"), T(repo_owner),
                                                T("_"), T(repo_name)>>),
        source |-> <<repo_owner, repo_name, resources>>,
        write_disposition |-> request.write_disposition,
        file_format |-> request.file_format]

\* The paginator branch of the simple REST template
PaginatorCode(pagination_type) ==
    IF pagination_type = "none" THEN "paginator=None"
    ELSE IF pagination_type = "offset" THEN "OffsetPaginator"
    ELSE IF pagination_type = "cursor" THEN "JSONLinkPaginator"
    ELSE IF pagination_type = "json_link" THEN "JSONLinkPaginator"
    ELSE "paginator=auto"

\* The body of _generate_rest_api_pipeline below its advanced-mode test
rest_api_simple_body(request) ==
    LET config == request.source_configuration
        resource_name == Get(config, "resource_name", "data")
        data_selector == Get(config, "data_selector", "")
        incremental == request.incremental_enabled /\ Truthy(request.cursor_field)
    IN [kind |-> "text",
        template |-> "rest_api_simple",
        has_run |-> TRUE,
        name |-> request.name,
        doc |-> DocLine(request, <<T("Load data from REST API to "),
                                   Cs(request.destination_type)>>),
        destination |-> request.destination_type,
        dataset_name |-> DatasetName(request, <<T(resource_name), T("_data")>>),
        source |-> <<Get(config, "base_url", "https://api.example.com"),
                     resource_name,
                     Get(config, "endpoint", "/data"),
                     Get(config, "http_method", "GET"),
                     PaginatorCode(Get(config, "pagination_type", "auto")),
                     IF data_selector # "" THEN data_selector ELSE "None",
                     request.incremental_enabled,
                     IF incremental THEN request.cursor_field ELSE NONE,
                     IF incremental /\ Truthy(request.cursor_initial_value)
                     THEN request.cursor_initial_value ELSE NONE>>,
        write_disposition |-> request.write_disposition,
        file_format |-> request.file_format]

\* The body of _generate_rest_api_advanced once json.loads has succeeded
rest_api_advanced_body(request) ==
    LET config == request.source_configuration
        text == Get(config, "advanced_config", J_empty)
        resource_name ==
            JsonFirstResourceName(text, Get(config, "resource_name", "data"))
    IN [kind |-> "text",
        template |-> "rest_api_advanced",
        has_run |-> TRUE,
        name |-> request.name,
        doc |-> DocLine(request, <<T("Load data from REST API to "),
                                   Cs(request.destination_type)>>),
        destination |-> request.destination_type,
        dataset_name |-> DatasetName(request, <<T(resource_name), T("_data")>>),
        source |-> <<text>>,
        write_disposition |-> request.write_disposition,
        file_format |-> request.file_format]

\* config.get('advanced_mode') and config.get('advanced_config')
UsesAdvanced(config) ==
    /\ Get(config, "advanced_mode", FALSE)
    /\ Get(config, "advanced_config", "") # ""

RECURSIVE generate_rest_api_pipeline(_, _)
RECURSIVE generate_rest_api_advanced(_, _)

\* _generate_rest_api_pipeline; stack is the number of frames left before
\* the interpreter raises RecursionError
generate_rest_api_pipeline(request, stack) ==
    IF stack = 0 THEN RecursionError
    ELSE IF UsesAdvanced(request.source_configuration)
    THEN generate_rest_api_advanced(request, stack - 1)
    ELSE rest_api_simple_body(request)

\* _generate_rest_api_advanced: the except branch calls back into
\* _generate_rest_api_pipeline with the same request
generate_rest_api_advanced(request, stack) ==
    IF stack = 0 THEN RecursionError
    ELSE IF ~JsonValid(Get(request.source_configuration, "advanced_config", J_empty))
    THEN generate_rest_api_pipeline(request, stack - 1)
    ELSE rest_api_advanced_body(request)

generate_generic_pipeline(request) ==
    [kind |-> "text",
     template |-> "generic",
     has_run |-> TRUE,
     name |-> request.name,
     doc |-> DocLine(request, <<T("Load data from "), Cs(request.source_type),
                                T(" to "), Cs(request.destination_type)>>),
     destination |-> request.destination_type,
     dataset_name |-> DatasetName(request, <<Cs(request.source_type), T("_data")>>),
     source |-> <<request.source_type, request.source_configuration>>,
     write_disposition |-> request.write_disposition,
     file_format |-> request.file_format]

generate_dlt_pipeline(request, stack) ==
    IF stack = 0 THEN RecursionError
    ELSE IF request.source_type = S_github THEN generate_github_pipeline(request)
    ELSE IF request.source_type = S_rest_api
    THEN generate_rest_api_pipeline(request, stack - 1)
    ELSE generate_generic_pipeline(request)

\* The streams dict built by the loop over the listed tables
RECURSIVE StreamsOf(_, _, _)
StreamsOf(tables, destination_type, streams) ==
    IF tables = <<>> THEN streams
    ELSE StreamsOf(Tail(tables), destination_type,
                   MapSet(streams, S_public_dot \o Head(tables),
                          [object |-> destination_type \o S_dot \o Head(tables)]))

StripAll(pieces) == [i \in DOMAIN pieces |-> Strip(pieces[i])]

PlaceholderStreams ==
    MapSet(EmptyMap, <<"# TODO: Configure your streams">>,
           [k \in {"# Example"} |-> "public.users"])

generate_sling_replication(request) ==
    LET config == request.source_configuration
        tables == Get(config, "tables", <<>>)
        streams ==
            IF tables # <<>>
            THEN StreamsOf(StripAll(SplitComma(tables, <<>>)),
                           request.destination_type, EmptyMap)
            ELSE PlaceholderStreams
    IN [keys |-> <<"source", "target", "defaults", "streams">>,
        val |-> [source |-> Upper(request.source_type),
                 target |-> Upper(request.destination_type),
                 defaults |-> [mode |-> "full-refresh",
                               object |-> "{stream_schema}.{stream_table}"],
                 streams |-> streams]]

\* tool.upper() for the tool names
ToolUpper(tool) == IF tool = "dlt" THEN "DLT" ELSE "SLING"

generate_readme(request, tool) ==
    [kind |-> "text",
     title |-> request.name,
     doc |-> DocLine(request, <<T(ToolUpper(tool)), T(" pipeline from "),
                                Cs(request.source_type), T(" to "),
                                Cs(request.destination_type)>>),
     source_type |-> request.source_type,
     config_section |-> request.source_configuration,
     destination_type |-> request.destination_type,
     run_command |->
        IF tool = "dlt"
        THEN <<"python -m pipelines.", tool, ".", request.name, ".pipeline">>
        ELSE <<"sling run -r pipelines/", tool, "/", request.name,
               "/replication.yaml">>]

\* YAML booleans as written in the file
YTrue == "true"
YFalse == "false"

\* datetime.datetime.now().strftime("%Y-%m-%d") on day number d
Dates == <<"2026-11-04", "2026-11-05", "2026-11-06", "2026-11-07", "2026-11-08">>
strftime(d) == Dates[d + 1]

\* A retry_policy dict that always carries the backoff
RetryPolicyWithBackoff(retries, retry_delay, retry_backoff, retry_jitter) ==
    [k \in {"max_retries", "delay", "backoff"}
            \cup (IF Truthy(retry_jitter) THEN {"jitter"} ELSE {}) |->
        CASE k = "max_retries" -> retries
          [] k = "delay" -> retry_delay
          [] k = "backoff" -> retry_backoff
          [] k = "jitter" -> retry_jitter]

\* The retry_policy dict of generate_dagster_yaml
RetryPolicy(retries, retry_delay, retry_backoff, retry_jitter) ==
    LET ks == {"max_retries", "delay"}
              \cup (IF Truthy(retry_backoff) /\ retry_backoff # "LINEAR"
                    THEN {"backoff"} ELSE {})
              \cup (IF Truthy(retry_jitter) THEN {"jitter"} ELSE {})
    IN [k \in ks |-> CASE k = "max_retries" -> retries
                       [] k = "delay" -> retry_delay
                       [] k = "backoff" -> retry_backoff
                       [] k = "jitter" -> retry_jitter]

\* A YAML mapping node and the nodes that are not mappings
YMap(v) == [kind |-> "map", val |-> v]

\* IsIncremental looking at the flag alone
IsIncrementalByFlag(request) == request.incremental_enabled

\* request.incremental_enabled and request.cursor_field
IsIncremental(request) ==
    request.incremental_enabled /\ Truthy(request.cursor_field)

\* IncrementalStart that ignores the initial cursor value
IncrementalStartToday(request, day) == strftime(day)

\* request.cursor_initial_value or datetime.datetime.now().strftime("%Y-%m-%d")
IncrementalStart(request, day) ==
    IF Truthy(request.cursor_initial_value)
    THEN request.cursor_initial_value ELSE strftime(day)

\* TimeStart defaulting to the day of the call
TimeStartToday(request, day) ==
    IF Truthy(request.partition_start) THEN request.partition_start
    ELSE strftime(day)

\* request.partition_start or "2024-01-01"
TimeStart(request, day) ==
    IF Truthy(request.partition_start) THEN request.partition_start
    ELSE "2024-01-01"

\* The partitions and incremental keys of generate_dagster_yaml
WithPartitions(config, request, day) ==
    IF IsIncremental(request)
    THEN LET start_date == IncrementalStart(request, day)
             c1 == MapSet(config, "partitions",
                      [enabled |-> YTrue, type |-> "time",
                       time |-> [start |-> start_date,
                                 cron_schedule |-> request.partition_frequency,
                                 timezone |-> request.timezone,
                                 fmt |-> "%Y-%m-%d"]])
         IN MapSet(c1, "incremental",
                   [cursor_field |-> request.cursor_field,
                    initial_value |-> request.cursor_initial_value])
    ELSE IF request.partitions_enabled
    THEN IF request.partition_type = "time"
         THEN MapSet(config, "partitions",
                 [enabled |-> YTrue, type |-> "time",
                  time |-> [start |-> TimeStart(request, day),
                            cron_schedule |-> IF Truthy(request.partition_cron)
                                              THEN request.partition_cron
                                              ELSE "0 0 * * *",
                            timezone |-> request.timezone,
                            fmt |-> "%Y-%m-%d"]])
         ELSE IF request.partition_type = "static" /\ request.partition_keys # <<>>
         THEN MapSet(config, "partitions",
                 [enabled |-> YTrue, type |-> "static",
                  static |-> [partition_keys |-> request.partition_keys]])
         ELSE config
    ELSE config

generate_dagster_yaml(request, day) ==
    LET c0 == MapSet(EmptyMap, "enabled", YTrue)
        c1 == IF request.description # NoText
              THEN MapSet(c0, "description", request.description) ELSE c0
        c2 == IF Truthy(request.group_name)
              THEN MapSet(c1, "group", request.group_name) ELSE c1
        c3 == IF request.owners # <<>>
              THEN MapSet(c2, "owners", request.owners) ELSE c2
        c4 == IF request.schedule_enabled /\ Truthy(request.cron_schedule)
              THEN MapSet(c3, "schedule",
                          YMap([enabled |-> YTrue,
                                cron_schedule |-> request.cron_schedule,
                                timezone |-> request.timezone]))
              ELSE c3
        c5 == IF request.tags # EmptyDict
              THEN MapSet(c4, "tags", request.tags) ELSE c4
        c6 == IF request.kinds # <<>>
              THEN MapSet(c5, "kinds", request.kinds) ELSE c5
        c7 == MapSet(c6, "retry_policy",
                     RetryPolicy(request.retries, request.retry_delay,
                                 request.retry_backoff, request.retry_jitter))
    IN WithPartitions(c7, request, day)

\* The config_data dict of create_pipeline
config_data(request) ==
    LET c0 == MapSet(MapSet(EmptyMap, "source_type", request.source_type),
                     "destination_type", request.destination_type)
    IN IF request.source_configuration # EmptyDict
       THEN MapSet(c0, "configuration", request.source_configuration)
       ELSE c0

-----------------------------------------------------------------------------
(* The pipelines tree and its files                                        *)

Tools == {"dlt", "sling"}

FileNames == {"pipeline.py", "replication.yaml", "config.yaml", "README.md",
              "dagster.yaml"}

\* A file is absent, a text (kind "text"), or YAML that parses to a mapping
\* (kind "map"), to None (kind "null": an empty file), to a non-empty list
\* or a string (kinds "list", "str"), or does not parse (kind "invalid").
Absent == [kind |-> "absent"]

NoDir == [kind |-> "nodir"]
EmptyDir == [kind |-> "dir", files |-> [f \in FileNames |-> Absent]]

Exists(d) == d # NoDir

WriteFile(dir, f, content) == [dir EXCEPT !.files[f] = content]

YAMLError == [kind |-> "raised", error |-> "YAMLError"]
TypeError == [kind |-> "raised", error |-> "TypeError"]
AttributeError == [kind |-> "raised", error |-> "AttributeError"]

\* yaml.safe_load of a file that exists
safe_load(file) == IF file.kind = "invalid" THEN YAMLError ELSE file

\* yaml.dump(config, f, sort_keys=False) of a dict: the file parses back to
\* the same keys, in the same order, with the same values (the program
\* writes only str, int, bool, list and dict values, which PyYAML quotes so
\* that safe_load returns them unchanged)
yaml_dump(config) == [kind |-> "map", map |-> config]

\* The program artifact of a tool
ProgramFile(tool) == IF tool = "dlt" THEN "pipeline.py" ELSE "replication.yaml"

-----------------------------------------------------------------------------
(* create_pipeline, one write at a time                                    *)

\* pipeline_dir.mkdir(parents=True, exist_ok=True)
mkdir(dir) == IF Exists(dir) THEN dir ELSE EmptyDir

\* pipeline.py or replication.yaml; a raised error instead of a directory
\* when the generator raises before the file is opened
write_program(dir, request, tool, stack) ==
    IF tool = "dlt"
    THEN LET pipeline_py == generate_dlt_pipeline(request, stack)
         IN IF Raised(pipeline_py) THEN pipeline_py
            ELSE WriteFile(dir, "pipeline.py", pipeline_py)
    ELSE WriteFile(dir, "replication.yaml",
                   yaml_dump(generate_sling_replication(request)))

\* write_config that leaves a config.yaml already there in place
write_config_keep(dir, request) ==
    IF dir.files["config.yaml"] # Absent THEN dir
    ELSE WriteFile(dir, "config.yaml", yaml_dump(config_data(request)))

write_config(dir, request) ==
    WriteFile(dir, "config.yaml", yaml_dump(config_data(request)))

write_readme(dir, request, tool) ==
    WriteFile(dir, "README.md", generate_readme(request, tool))

write_dagster(dir, request, day) ==
    WriteFile(dir, "dagster.yaml", yaml_dump(generate_dagster_yaml(request, day)))

\* The whole of create_pipeline with no failure and nothing in between
create_pipeline(dir, request, tool, day, stack) ==
    LET d1 == write_program(mkdir(dir), request, tool, stack)
    IN IF Raised(d1) THEN d1
       ELSE write_dagster(write_readme(write_config(d1, request), request, tool),
                          request, day)

-----------------------------------------------------------------------------
(* Lookup and the in-place writers of dagster.yaml                         *)

\* A search loop that looks under sling before dlt
find_sling_first(tree, name) ==
    IF Exists(tree["sling"][name]) THEN "sling"
    ELSE IF Exists(tree["dlt"][name]) THEN "dlt"
    ELSE "NotFound"

\* The search loop of cli delete, enable/disable and show
find(tree, name) ==
    IF Exists(tree["dlt"][name]) THEN "dlt"
    ELSE IF Exists(tree["sling"][name]) THEN "sling"
    ELSE "NotFound"

\* yaml.safe_load(f) or {}
LoadOrEmpty(file) ==
    LET v == safe_load(file)
    IN IF Raised(v) THEN v
       ELSE IF v.kind = "null" THEN yaml_dump(EmptyMap)
       ELSE v

\* set_enabled writing a descriptor that holds the flag alone
set_enabled_alone(file, enabled) ==
    LET config == LoadOrEmpty(file)
    IN IF Raised(config) THEN config
       ELSE IF config.kind # "map" THEN TypeError
       ELSE yaml_dump(MapSet(EmptyMap, "enabled", enabled))

\* The read, config["enabled"] = enabled, write back of cli/toggle.py and of
\* the HTTP toggle: the new file, or the error raised before the write
set_enabled(file, enabled) ==
    LET config == LoadOrEmpty(file)
    IN IF Raised(config) THEN config
       ELSE IF config.kind # "map" THEN TypeError
       ELSE yaml_dump(MapSet(config.map, "enabled", enabled))

\* metadata.get(k) is truthy, for the keys holding lists and texts
Filled(metadata, k) == k \in DOMAIN metadata /\ metadata[k] # <<>>

\* SetOrDel without its elif branch
SetOrKeep(config, key, metadata, k) ==
    IF Filled(metadata, k) THEN MapSet(config, key, metadata[k]) ELSE config

\* if metadata.get(k): config[key] = metadata[k] elif key in config: del
SetOrDel(config, key, metadata, k) ==
    IF Filled(metadata, k) THEN MapSet(config, key, metadata[k])
    ELSE IF MapHas(config, key) THEN MapDel(config, key)
    ELSE config

\* SetOrDelTags without its elif branch
SetOrKeepTags(config, metadata) ==
    IF "tags" \in DOMAIN metadata /\ metadata["tags"] # EmptyDict
    THEN MapSet(config, "tags", metadata["tags"])
    ELSE config

\* The same for tags, a dict
SetOrDelTags(config, metadata) ==
    IF "tags" \in DOMAIN metadata /\ metadata["tags"] # EmptyDict
    THEN MapSet(config, "tags", metadata["tags"])
    ELSE IF MapHas(config, "tags") THEN MapDel(config, "tags")
    ELSE config

\* The body of update_pipeline_metadata between the read and the write
apply_metadata(config, metadata) ==
    LET c1 == MapSet(config, "enabled", Get(metadata, "enabled", YTrue))
        c2 == SetOrDel(c1, "description", metadata, "description")
        c3 == MapSet(c2, "group", Get(metadata, "group_name", "default"))
        c4 == SetOrDel(c3, "owners", metadata, "owners")
        c5 == SetOrDelTags(c4, metadata)
        c6 == SetOrDel(c5, "kinds", metadata, "kinds")
        backoff == Get(metadata, "retry_backoff", "LINEAR")
        jitter == Get(metadata, "retry_jitter", NONE)
        retry_policy ==
            [k \in {"max_retries", "delay"}
                   \cup (IF backoff # "LINEAR" THEN {"backoff"} ELSE {})
                   \cup (IF Truthy(jitter) THEN {"jitter"} ELSE {}) |->
                CASE k = "max_retries" -> Get(metadata, "retries", DefaultRetries)
                  [] k = "delay" -> Get(metadata, "retry_delay", DefaultRetryDelay)
                  [] k = "backoff" -> backoff
                  [] k = "jitter" -> jitter]
    IN MapSet(c6, "retry_policy", retry_policy)

\* update_pipeline_metadata on the dagster.yaml of an existing directory:
\* the new file, or the error raised before the write
update_metadata(file, metadata) ==
    LET config == IF file = Absent THEN yaml_dump(EmptyMap) ELSE LoadOrEmpty(file)
    IN IF Raised(config) THEN config
       ELSE IF config.kind # "map" THEN TypeError
       ELSE yaml_dump(apply_metadata(config.map, metadata))

-----------------------------------------------------------------------------
(* Inputs of the handlers                                                  *)

Names == {"p1"}

\* Request bodies of POST /api/pipelines and PUT /api/pipelines/{tool}/{name}
ReqGithub(n) ==
    [PipelineRequest(n, S_github, S_snowflake) EXCEPT
        !.description = <<T("GitHub issues")>>,
        !.group_name = "ingest",
        !.owners = <<"data@example.com">>,
        !.tags = [env |-> "prod"],
        !.kinds = <<"github">>,
        !.schedule_enabled = TRUE,
        !.cron_schedule = "0 2 * * *",
        !.retries = 5,
        !.retry_backoff = "EXPONENTIAL",
        !.retry_jitter = "FULL"]

ReqPostgres(n) ==
    [PipelineRequest(n, S_postgres, S_bigquery) EXCEPT
        !.source_configuration = [tables |-> S_users_orders]]

ReqRestBadJson(n) ==
    [PipelineRequest(n, S_rest_api, S_duckdb) EXCEPT
        !.source_configuration =
            [advanced_mode |-> TRUE, advanced_config |-> J_words]]

ReqRestIncremental(n) ==
    [PipelineRequest(n, S_rest_api, S_duckdb) EXCEPT
        !.incremental_enabled = TRUE,
        !.cursor_field = "updated_at"]

HttpRequests ==
    UNION {{ReqGithub(n), ReqPostgres(n), ReqRestBadJson(n), ReqRestIncremental(n)} :
           n \in Names}

\* Arguments and prompt answers of `elt scaffold create`
CliArgs ==
    {[source_type |-> S_github, destination_type |-> S_snowflake,
      description |-> NoText, group_name |-> NONE, cron_schedule |-> NONE,
      source_configuration |-> EmptyDict],
     [source_type |-> S_Postgres, destination_type |-> S_bigquery,
      description |-> <<T("Orders")>>, group_name |-> "db",
      cron_schedule |-> "0 3 * * *",
      source_configuration |-> [tables |-> S_users]]}

\* The request `elt scaffold create` builds from its arguments
cli_request(name, a) ==
    [PipelineRequest(name, a.source_type, a.destination_type) EXCEPT
        !.source_configuration = a.source_configuration,
        !.description = IF a.description # NoText THEN a.description
                        ELSE <<T("Load "), Cs(a.source_type), T(" data to "),
                               Cs(a.destination_type)>>,
        !.group_name = a.group_name,
        !.schedule_enabled = Truthy(a.cron_schedule),
        !.cron_schedule = a.cron_schedule]

\* JSON bodies of PATCH .../toggle
ToggleBodies ==
    {[enabled |-> YTrue], [enabled |-> YFalse], EmptyDict, [enabled |-> "'no'"]}

\* JSON bodies of PUT .../metadata
MetadataBodies ==
    {EmptyDict,
     [enabled |-> YFalse, description |-> <<T("Nightly load")>>,
      group_name |-> "nightly", owners |-> <<"ops@example.com">>,
      tags |-> [tier |-> "gold"], kinds |-> <<"dlt">>, retries |-> 7,
      retry_delay |-> 60, retry_backoff |-> "EXPONENTIAL",
      retry_jitter |-> "PLUS_MINUS"]}

-----------------------------------------------------------------------------
(* State of the repository and of the handlers                             *)

IdleReq == PipelineRequest("none", S_github, S_duckdb)

NoGen == [active |-> FALSE, via |-> "none", op |-> "none", tool |-> "none",
          name |-> "none", request |-> IdleReq, step |-> 0, existed |-> FALSE]

NoCall == [op |-> "none", via |-> "none", tool |-> "none", name |-> "none",
           status |-> "none", code |-> 0, arg |-> "none"]

Reply(op, via, tool, name, status, code, arg) ==
    [op |-> op, via |-> via, tool |-> tool, name |-> name, status |-> status,
     code |-> code, arg |-> arg]

IdleOut == [done |-> FALSE]
IdleTree == [t \in Tools |-> NoDir]
IdleRun == [pc |-> "idle"]

\* The processes of the command harnesses, and one that runs no command
Procs == {"A", "B"}
IdleProc == [pc |-> "idle"]
IdleCli == [p \in Procs |-> IdleProc]

HarnessIdle ==
    /\ req = IdleReq
    /\ out = IdleOut
    /\ vtree = IdleTree
    /\ vrun = IdleRun
    /\ cli = IdleCli

Init ==
    /\ fs = [t \in Tools |-> [n \in Names |-> NoDir]]
    /\ gen = NoGen
    /\ last = NoCall
    /\ today = 0
    /\ nops = 0
    /\ fserr = FALSE
    /\ HarnessIdle

PutDir(tree, tool, name, dir) == [tree EXCEPT ![tool][name] = dir]

\* A CLI command is a process of its own; the HTTP handlers run one at a
\* time on the server's event loop.
MayRun(via) == ~gen.active \/ via = "cli" \/ gen.via = "cli"

Started == nops' = nops + 1

-----------------------------------------------------------------------------
(* elt scaffold create, POST /api/pipelines, PUT /api/pipelines/{tool}/{name} *)

BeginGen(via, op, tool, name, request, existed) ==
    gen' = [active |-> TRUE, via |-> via, op |-> op, tool |-> tool,
            name |-> name, request |-> request, step |-> 0, existed |-> existed]

\* scaffold.create up to its call of create_pipeline; answer is the reply
\* to the overwrite prompt
CliCreate(name, a, answer) ==
    LET tool == choose_tool(a.source_type, a.destination_type)
    IN /\ ~gen.active
       /\ nops < MaxOps
       /\ Started
       /\ IF Exists(fs[tool][name]) /\ ~answer
          THEN /\ last' = Reply("create", "cli", tool, name, "aborted", 0, "none")
               /\ UNCHANGED gen
          ELSE /\ BeginGen("cli", "create", tool, name, cli_request(name, a),
                           Exists(fs[tool][name]))
               /\ UNCHANGED last
       /\ UNCHANGED <<fs, today, fserr, req, out, vtree, vrun, cli>>

\* create_new_pipeline without its test of pipeline_dir.exists()
HttpCreateUnchecked(request) ==
    LET tool == choose_tool(request.source_type, request.destination_type)
    IN /\ ~gen.active
       /\ nops < MaxOps
       /\ Started
       /\ BeginGen("http", "create", tool, request.name, request, FALSE)
       /\ UNCHANGED <<last, fs, today, fserr, req, out, vtree, vrun, cli>>

\* create_new_pipeline up to its call of create_pipeline: the HTTPException
\* raised for an existing directory is caught by `except Exception` and
\* raised again with status 500
HttpCreate(request) ==
    LET tool == choose_tool(request.source_type, request.destination_type)
    IN /\ ~gen.active
       /\ nops < MaxOps
       /\ Started
       /\ IF Exists(fs[tool][request.name])
          THEN /\ last' = Reply("create", "http", tool, request.name, "conflict",
                                500, "none")
               /\ UNCHANGED gen
          ELSE /\ BeginGen("http", "create", tool, request.name, request, FALSE)
               /\ UNCHANGED last
       /\ UNCHANGED <<fs, today, fserr, req, out, vtree, vrun, cli>>

\* update_pipeline up to its call of create_pipeline
HttpUpdate(tool, name, request) ==
    /\ ~gen.active
    /\ nops < MaxOps
    /\ Started
    /\ IF ~Exists(fs[tool][name])
       THEN /\ last' = Reply("update", "http", tool, name, "not_found", 404, "none")
            /\ UNCHANGED gen
       ELSE /\ BeginGen("http", "update", tool, name, request, TRUE)
            /\ UNCHANGED last
    /\ UNCHANGED <<fs, today, fserr, req, out, vtree, vrun, cli>>

HttpCode(via, code) == IF via = "http" THEN code ELSE 0

\* The call ends with an exception: CLI traceback, HTTP 500
GenRaise(status) ==
    /\ gen' = NoGen
    /\ last' = Reply(gen.op, gen.via, gen.tool, gen.name, status,
                     HttpCode(gen.via, 500), "none")

\* The next statement of create_pipeline
GenStep ==
    /\ gen.active
    /\ gen.step < 5
    /\ LET dir == fs[gen.tool][gen.name]
           next == [gen EXCEPT !.step = gen.step + 1]
       IN IF gen.step = 0
          THEN /\ fs' = PutDir(fs, gen.tool, gen.name, mkdir(dir))
               /\ gen' = next
               /\ UNCHANGED <<last, fserr>>
          ELSE IF ~Exists(dir)
          THEN \* the directory was removed meanwhile: open() fails
               /\ GenRaise("fs_error")
               /\ fserr' = TRUE
               /\ UNCHANGED fs
          ELSE LET d == CASE gen.step = 1 ->
                               write_program(dir, gen.request, gen.tool, MaxStack)
                          [] gen.step = 2 -> write_config(dir, gen.request)
                          [] gen.step = 3 ->
                               write_readme(dir, gen.request, gen.tool)
                          [] gen.step = 4 ->
                               write_dagster(dir, gen.request, today)
               IN IF Raised(d)
                  THEN /\ GenRaise("error")
                       /\ UNCHANGED <<fs, fserr>>
                  ELSE /\ fs' = PutDir(fs, gen.tool, gen.name, d)
                       /\ gen' = next
                       /\ UNCHANGED <<last, fserr>>
    /\ UNCHANGED <<today, nops, req, out, vtree, vrun, cli>>

\* The next statement of create_pipeline fails with an OSError
GenFail ==
    /\ gen.active
    /\ gen.step < 5
    /\ GenRaise("fs_error")
    /\ fserr' = TRUE
    /\ UNCHANGED <<fs, today, nops, req, out, vtree, vrun, cli>>

\* ensure_env_vars_exist, which the HTTP create and update handlers call
\* once create_pipeline has returned, fails on .env or .env.metadata.json:
\* the handler answers 500 and the pipeline directory stays as written
EnvFail ==
    /\ gen.active
    /\ gen.via = "http"
    /\ gen.step = 5
    /\ GenRaise("fs_error")
    /\ fserr' = TRUE
    /\ UNCHANGED <<fs, today, nops, req, out, vtree, vrun, cli>>

\* create_pipeline (and, over HTTP, ensure_env_vars_exist) has returned:
\* the handler reports success
GenFinish ==
    /\ gen.active
    /\ gen.step = 5
    /\ gen' = NoGen
    /\ last' = Reply(gen.op, gen.via, gen.tool, gen.name, "ok",
                     HttpCode(gen.via, 200), "none")
    /\ UNCHANGED <<fs, today, nops, fserr, req, out, vtree, vrun, cli>>

-----------------------------------------------------------------------------
(* enable/disable, toggle, metadata update, delete                         *)

\* _toggle_pipeline
CliToggle(name, enabled) ==
    LET tool == find(fs, name)
        b == IF enabled THEN YTrue ELSE YFalse
    IN /\ nops < MaxOps
       /\ Started
       /\ IF tool = "NotFound"
          THEN /\ last' = Reply("toggle", "cli", tool, name, "not_found", 0, b)
               /\ UNCHANGED fs
          ELSE LET dir == fs[tool][name]
                   file == dir.files["dagster.yaml"]
               IN IF file = Absent
                  THEN /\ last' = Reply("toggle", "cli", tool, name, "not_found", 0, b)
                       /\ UNCHANGED fs
                  ELSE LET new == set_enabled(file, b)
                       IN IF Raised(new)
                          THEN /\ last' = Reply("toggle", "cli", tool, name, "error", 0, b)
                               /\ UNCHANGED fs
                          ELSE /\ fs' = PutDir(fs, tool, name,
                                               WriteFile(dir, "dagster.yaml", new))
                               /\ last' = Reply("toggle", "cli", tool, name, "ok", 0, b)
       /\ UNCHANGED <<gen, today, fserr, req, out, vtree, vrun, cli>>

\* toggle_pipeline starting a dagster.yaml where the directory has none
HttpToggleCreating(tool, name, data) ==
    LET dir == fs[tool][name]
        enabled == Get(data, "enabled", YTrue)
        file == IF Exists(dir) /\ dir.files["dagster.yaml"] # Absent
                THEN dir.files["dagster.yaml"] ELSE yaml_dump(EmptyMap)
        new == set_enabled(file, enabled)
    IN /\ MayRun("http")
       /\ nops < MaxOps
       /\ Started
       /\ IF ~Exists(dir)
          THEN /\ last' = Reply("toggle", "http", tool, name, "not_found", 404, enabled)
               /\ UNCHANGED fs
          ELSE IF Raised(new)
          THEN /\ last' = Reply("toggle", "http", tool, name, "error", 500, enabled)
               /\ UNCHANGED fs
          ELSE /\ fs' = PutDir(fs, tool, name, WriteFile(dir, "dagster.yaml", new))
               /\ last' = Reply("toggle", "http", tool, name, "ok", 200, enabled)
       /\ UNCHANGED <<gen, today, fserr, req, out, vtree, vrun, cli>>

\* toggle_pipeline
HttpToggle(tool, name, data) ==
    LET dir == fs[tool][name]
        enabled == Get(data, "enabled", YTrue)
    IN /\ MayRun("http")
       /\ nops < MaxOps
       /\ Started
       /\ IF ~Exists(dir) \/ dir.files["dagster.yaml"] = Absent
          THEN /\ last' = Reply("toggle", "http", tool, name, "not_found", 404, enabled)
               /\ UNCHANGED fs
          ELSE LET new == set_enabled(dir.files["dagster.yaml"], enabled)
               IN IF Raised(new)
                  THEN /\ last' = Reply("toggle", "http", tool, name, "error", 500, enabled)
                       /\ UNCHANGED fs
                  ELSE /\ fs' = PutDir(fs, tool, name,
                                       WriteFile(dir, "dagster.yaml", new))
                       /\ last' = Reply("toggle", "http", tool, name, "ok", 200, enabled)
       /\ UNCHANGED <<gen, today, fserr, req, out, vtree, vrun, cli>>

\* update_pipeline_metadata
HttpUpdateMetadata(tool, name, metadata) ==
    LET dir == fs[tool][name]
    IN /\ MayRun("http")
       /\ nops < MaxOps
       /\ Started
       /\ IF ~Exists(dir)
          THEN /\ last' = Reply("metadata", "http", tool, name, "not_found", 404, metadata)
               /\ UNCHANGED fs
          ELSE LET new == update_metadata(dir.files["dagster.yaml"], metadata)
               IN IF Raised(new)
                  THEN /\ last' = Reply("metadata", "http", tool, name, "error", 500, metadata)
                       /\ UNCHANGED fs
                  ELSE /\ fs' = PutDir(fs, tool, name,
                                       WriteFile(dir, "dagster.yaml", new))
                       /\ last' = Reply("metadata", "http", tool, name, "ok", 200, metadata)
       /\ UNCHANGED <<gen, today, fserr, req, out, vtree, vrun, cli>>

\* cli delete; answer is the reply to the confirmation prompt
CliDelete(name, answer) ==
    LET tool == find(fs, name)
    IN /\ nops < MaxOps
       /\ Started
       /\ IF tool = "NotFound"
          THEN /\ last' = Reply("delete", "cli", tool, name, "not_found", 0, "none")
               /\ UNCHANGED fs
          ELSE IF ~answer
          THEN /\ last' = Reply("delete", "cli", tool, name, "aborted", 0, "none")
               /\ UNCHANGED fs
          ELSE /\ fs' = PutDir(fs, tool, name, NoDir)
               /\ last' = Reply("delete", "cli", tool, name, "ok", 0, "none")
       /\ UNCHANGED <<gen, today, fserr, req, out, vtree, vrun, cli>>

\* delete_pipeline
HttpDelete(tool, name) ==
    /\ MayRun("http")
    /\ nops < MaxOps
    /\ Started
    /\ IF ~Exists(fs[tool][name])
       THEN /\ last' = Reply("delete", "http", tool, name, "not_found", 404, "none")
            /\ UNCHANGED fs
       ELSE /\ fs' = PutDir(fs, tool, name, NoDir)
            /\ last' = Reply("delete", "http", tool, name, "ok", 200, "none")
    /\ UNCHANGED <<gen, today, fserr, req, out, vtree, vrun, cli>>

Next ==
    \/ \E n \in Names, a \in CliArgs, answer \in BOOLEAN : CliCreate(n, a, answer)
    \/ \E r \in HttpRequests : HttpCreate(r)
    \/ \E t \in Tools, n \in Names, r \in HttpRequests : HttpUpdate(t, n, r)
    \/ GenStep
    \/ GenFail
    \/ EnvFail
    \/ GenFinish
    \/ \E n \in Names, b \in BOOLEAN : CliToggle(n, b)
    \/ \E t \in Tools, n \in Names, d \in ToggleBodies : HttpToggle(t, n, d)
    \/ \E t \in Tools, n \in Names, m \in MetadataBodies : HttpUpdateMetadata(t, n, m)
    \/ \E n \in Names, answer \in BOOLEAN : CliDelete(n, answer)
    \/ \E t \in Tools, n \in Names : HttpDelete(t, n)

Spec == Init /\ [][Next]_vars

-----------------------------------------------------------------------------
(* cli/validate.py                                                         *)

\* Truthiness of a YAML scalar as written in the file
YTruthy(v) == v \notin {YFalse, "null", "''", "0"}

Issue(tool, name, problem) == [tool |-> tool, name |-> name, problem |-> problem]

\* What a validator hands back: its list of issues (or an exception record)
Issues(list) == [kind |-> "issues", list |-> list]

\* config.get("schedule", {}).get("enabled") and the cron_schedule test:
\* the issues, or the AttributeError of .get on a value that is no dict
ScheduleIssues(config, tool, name) ==
    IF ~MapHas(config, "schedule") THEN Issues(<<>>)
    ELSE LET schedule == config.val["schedule"]
         IN IF schedule.kind # "map" THEN AttributeError
            ELSE IF /\ YTruthy(Get(schedule.val, "enabled", "null"))
                    /\ Get(schedule.val, "cron_schedule", "") = ""
            THEN Issues(<<Issue(tool, name, "Schedule enabled but no cron_schedule defined")>>)
            ELSE Issues(<<>>)

\* The dagster.yaml checks shared by both validators
DagsterIssues(file, tool, name) ==
    IF file = Absent THEN Issues(<<Issue(tool, name, "Missing dagster.yaml")>>)
    ELSE LET config == safe_load(file)
         IN IF Raised(config)
            THEN Issues(<<Issue(tool, name, "Invalid YAML in dagster.yaml")>>)
            ELSE IF config.kind = "null" \/ (config.kind = "map" /\ config.map = EmptyMap)
            THEN Issues(<<Issue(tool, name, "Empty dagster.yaml")>>)
            ELSE IF config.kind # "map" THEN AttributeError
            ELSE LET descr == IF MapGet(config.map, "description", NoText) = NoText
                              THEN <<Issue(tool, name, "Missing description in dagster.yaml")>>
                              ELSE <<>>
                     sched == ScheduleIssues(config.map, tool, name)
                 IN IF Raised(sched) THEN sched ELSE Issues(descr \o sched.list)

validate_dlt_pipeline(name, dir) ==
    LET d == DagsterIssues(dir.files["dagster.yaml"], "dlt", name)
        pipeline_py == dir.files["pipeline.py"]
        p == IF pipeline_py = Absent
             THEN <<Issue("dlt", name, "Missing pipeline.py")>>
             ELSE IF ~pipeline_py.has_run
             THEN <<Issue("dlt", name, "pipeline.py missing run() function")>>
             ELSE <<>>
    IN IF Raised(d) THEN d ELSE Issues(d.list \o p)

\* The replication.yaml checks
ReplicationIssues(file, name) ==
    IF file = Absent THEN Issues(<<Issue("sling", name, "Missing replication.yaml")>>)
    ELSE LET config == safe_load(file)
         IN IF Raised(config)
            THEN Issues(<<Issue("sling", name, "Invalid YAML in replication.yaml")>>)
            ELSE IF config.kind = "null" \/ (config.kind = "map" /\ config.map = EmptyMap)
            THEN Issues(<<Issue("sling", name, "Empty replication.yaml")>>)
            ELSE IF config.kind # "map" THEN AttributeError
            ELSE Issues(
                 (IF MapGet(config.map, "source", <<>>) = <<>>
                  THEN <<Issue("sling", name, "Missing 'source' in replication.yaml")>>
                  ELSE <<>>)
                 \o (IF MapGet(config.map, "target", <<>>) = <<>>
                     THEN <<Issue("sling", name, "Missing 'target' in replication.yaml")>>
                     ELSE <<>>)
                 \o (IF MapGet(config.map, "streams", EmptyMap) = EmptyMap
                     THEN <<Issue("sling", name, "Missing 'streams' in replication.yaml")>>
                     ELSE <<>>))

validate_sling_pipeline(name, dir) ==
    LET d == DagsterIssues(dir.files["dagster.yaml"], "sling", name)
    IN IF Raised(d) THEN d
       ELSE LET r == ReplicationIssues(dir.files["replication.yaml"], name)
            IN IF Raised(r) THEN r ELSE Issues(d.list \o r.list)

-----------------------------------------------------------------------------
(* validate on a tree with one pipeline directory per tool                 *)

VName == "p1"

YNode(kind) == [kind |-> kind]

\* dagster.yaml mappings as a hand-edited repository can hold them
VSchedules ==
    {YNode("null"), YNode("str"), YNode("list"),
     YMap([enabled |-> YTrue, cron_schedule |-> "0 2 * * *", timezone |-> "UTC"]),
     YMap([enabled |-> YTrue, timezone |-> "UTC"]),
     YMap([enabled |-> YTrue, cron_schedule |-> "", timezone |-> "UTC"]),
     YMap([enabled |-> YFalse])}

VDagsterBase ==
    {MapSet(EmptyMap, "enabled", YTrue),
     MapSet(MapSet(EmptyMap, "enabled", YTrue), "description", NoText),
     MapSet(MapSet(EmptyMap, "enabled", YFalse), "description", <<T("Orders")>>)}

VDagsterMaps ==
    VDagsterBase \cup {MapSet(m, "schedule", s) : m \in VDagsterBase, s \in VSchedules}

VMalformed == {[kind |-> "invalid"], [kind |-> "null"], [kind |-> "list"],
               [kind |-> "str"], yaml_dump(EmptyMap)}

VDagsterFiles == {Absent} \cup VMalformed \cup {yaml_dump(m) : m \in VDagsterMaps}

VSlingDagsterFiles ==
    {Absent, [kind |-> "list"], [kind |-> "invalid"],
     yaml_dump(MapSet(MapSet(EmptyMap, "enabled", YTrue), "description",
                      <<T("Orders")>>)),
     yaml_dump(MapSet(MapSet(EmptyMap, "enabled", YTrue), "schedule",
                      YNode("str")))}

VPrograms ==
    {Absent,
     generate_generic_pipeline(PipelineRequest(VName, S_kafka, S_duckdb)),
     [generate_generic_pipeline(PipelineRequest(VName, S_kafka, S_duckdb))
        EXCEPT !.has_run = FALSE]}

VReplicationFull ==
    generate_sling_replication(
        [PipelineRequest(VName, S_postgres, S_bigquery) EXCEPT
            !.source_configuration = [tables |-> S_users_orders]])

VReplications ==
    {Absent} \cup VMalformed
    \cup {yaml_dump(VReplicationFull),
          yaml_dump(MapDel(VReplicationFull, "streams")),
          yaml_dump(MapSet(VReplicationFull, "streams", EmptyMap)),
          yaml_dump(MapDel(VReplicationFull, "source")),
          yaml_dump(MapSet(VReplicationFull, "target", <<>>))}

VDir(tool, dagster, program) ==
    [EmptyDir EXCEPT !.files["dagster.yaml"] = dagster,
                     !.files[ProgramFile(tool)] = program]

VDltDirs == {NoDir} \cup {VDir("dlt", d, p) : d \in VDagsterFiles, p \in VPrograms}

VSlingDirs ==
    {NoDir} \cup {VDir("sling", d, r) : d \in VSlingDagsterFiles, r \in VReplications}

VStart == [pc |-> "dlt", issues |-> <<>>, total |-> 0, valid |-> 0, error |-> "none"]

InitValidate ==
    /\ fs = [t \in Tools |-> [n \in Names |-> NoDir]]
    /\ gen = NoGen
    /\ last = NoCall
    /\ today = 0
    /\ nops = 0
    /\ fserr = FALSE
    /\ req = IdleReq
    /\ out = IdleOut
    /\ vtree \in [Tools -> VDltDirs \cup VSlingDirs]
    /\ vtree["dlt"] \in VDltDirs
    /\ vtree["sling"] \in VSlingDirs
    /\ vrun = VStart
    /\ cli = IdleCli

\* One pass of a `for pipeline_dir in <tool>_dir.iterdir()` loop of validate
ScanTool(tool, result, nextpc) ==
    IF ~Exists(vtree[tool]) THEN [vrun EXCEPT !.pc = nextpc]
    ELSE IF Raised(result)
    THEN [vrun EXCEPT !.pc = "raised", !.error = result.error]
    ELSE [vrun EXCEPT !.pc = nextpc,
                      !.total = vrun.total + 1,
                      !.issues = vrun.issues \o result.list,
                      !.valid = IF result.list = <<>> THEN vrun.valid + 1 ELSE vrun.valid]

ValidateDlt ==
    /\ vrun.pc = "dlt"
    /\ vrun' = ScanTool("dlt",
                        IF Exists(vtree["dlt"])
                        THEN validate_dlt_pipeline(VName, vtree["dlt"]) ELSE Issues(<<>>),
                        "sling")
    /\ UNCHANGED <<mainVars, req, out, vtree, cli>>

ValidateSling ==
    /\ vrun.pc = "sling"
    /\ vrun' = ScanTool("sling",
                        IF Exists(vtree["sling"])
                        THEN validate_sling_pipeline(VName, vtree["sling"]) ELSE Issues(<<>>),
                        "done")
    /\ UNCHANGED <<mainVars, req, out, vtree, cli>>

NextValidate == ValidateDlt \/ ValidateSling

SpecValidate == InitValidate /\ [][NextValidate]_vars

-----------------------------------------------------------------------------
(* The generator functions applied to one request                          *)

\* Source names as callers spell them: the three category sets, mixed-case
\* spellings, sources outside every set and the empty string
GenSources ==
    api_sources \cup db_sources \cup storage_sources
    \cup {S_rest_api, S_GitHub, S_Postgres, S_MYSQL, S_CSV, S_kafka,
          S_space \o S_postgres, <<>>}

GenDestinations == {S_snowflake, S_bigquery, S_duckdb, S_postgres, S_Postgres}

GenConfigurations ==
    {EmptyDict,
     [tables |-> S_users_orders],
     [tables |-> S_users_sp_orders],
     [advanced_mode |-> TRUE, advanced_config |-> J_words],
     [advanced_mode |-> TRUE, advanced_config |-> J_truncated],
     [advanced_mode |-> TRUE, advanced_config |-> J_resources],
     [advanced_mode |-> TRUE, advanced_config |-> J_empty],
     [advanced_mode |-> TRUE],
     [advanced_mode |-> FALSE, advanced_config |-> J_words]}

\* The partition and incremental fields of a request
GenPartitionOptions ==
    [incremental_enabled : BOOLEAN,
     cursor_field : {NONE, "", "updated_at"},
     cursor_initial_value : {NONE, "", "2024-06-01"},
     partitions_enabled : BOOLEAN,
     partition_type : {NONE, "time", "static", "hourly"},
     partition_keys : {<<>>, <<"us", "eu">>}]

GenPartitionRequests ==
    {[PipelineRequest("p1", S_github, S_duckdb) EXCEPT
        !.incremental_enabled = o.incremental_enabled,
        !.cursor_field = o.cursor_field,
        !.cursor_initial_value = o.cursor_initial_value,
        !.partitions_enabled = o.partitions_enabled,
        !.partition_type = o.partition_type,
        !.partition_keys = o.partition_keys,
        !.partition_frequency = "@hourly"] : o \in GenPartitionOptions}

\* The retry fields of a request
GenRetryOptions ==
    [retries : {0, DefaultRetries, 5},
     retry_delay : {DefaultRetryDelay, 60},
     retry_backoff : {"LINEAR", "EXPONENTIAL", ""},
     retry_jitter : {NONE, "", "FULL"}]

GenRetryRequests ==
    {[PipelineRequest("p1", S_postgres, S_bigquery) EXCEPT
        !.retries = o.retries,
        !.retry_delay = o.retry_delay,
        !.retry_backoff = o.retry_backoff,
        !.retry_jitter = o.retry_jitter] : o \in GenRetryOptions}

GenRequests ==
    {[PipelineRequest("p1", s, d) EXCEPT !.source_configuration = c] :
        s \in GenSources, d \in GenDestinations, c \in GenConfigurations}
    \cup GenPartitionRequests
    \cup GenRetryRequests

Returned(fn, value) == [done |-> TRUE, fn |-> fn, value |-> value]

InitGen ==
    /\ fs = [t \in Tools |-> [n \in Names |-> NoDir]]
    /\ gen = NoGen
    /\ last = NoCall
    /\ today \in 0..MaxDays
    /\ nops = 0
    /\ fserr = FALSE
    /\ vtree = IdleTree
    /\ vrun = IdleRun
    /\ cli = IdleCli
    /\ req \in GenRequests
    /\ out = IdleOut

CallChooseTool ==
    /\ ~out.done
    /\ out' = Returned("choose_tool", choose_tool(req.source_type, req.destination_type))
    /\ UNCHANGED <<mainVars, valVars, req, cli>>

CallGenerateDlt ==
    /\ ~out.done
    /\ out' = Returned("generate_dlt_pipeline", generate_dlt_pipeline(req, MaxStack))
    /\ UNCHANGED <<mainVars, valVars, req, cli>>

CallGenerateSling ==
    /\ ~out.done
    /\ out' = Returned("generate_sling_replication", generate_sling_replication(req))
    /\ UNCHANGED <<mainVars, valVars, req, cli>>

CallGenerateDagsterYaml ==
    /\ ~out.done
    /\ out' = Returned("generate_dagster_yaml", generate_dagster_yaml(req, today))
    /\ UNCHANGED <<mainVars, valVars, req, cli>>

CallCreatePipeline(tool) ==
    /\ ~out.done
    /\ out' = Returned("create_pipeline",
                       [tool |-> tool,
                        dir |-> create_pipeline(NoDir, req, tool, today, MaxStack)])
    /\ UNCHANGED <<mainVars, valVars, req, cli>>

NextGen ==
    \/ \E t \in Tools : CallCreatePipeline(t)
    \/ CallChooseTool
    \/ CallGenerateDlt
    \/ CallGenerateSling
    \/ CallGenerateDagsterYaml

SpecGen == InitGen /\ [][NextGen]_vars


-----------------------------------------------------------------------------
(* cli/show.py, and the CLI commands that look a pipeline up by name       *)

\* A file read the way show reads it: {} when the file is not there
LoadIfExists(file) == IF file = Absent THEN yaml_dump(EmptyMap) ELSE LoadOrEmpty(file)

\* show from the reads of the resolved directory to the header panel: the
\* status it prints, or the error that ends the command.  The panels after
\* the header format values of the two dicts loaded here and read no file.
show_header(dir) ==
    LET dagster_config == LoadIfExists(dir.files["dagster.yaml"])
        from_config == LoadIfExists(dir.files["config.yaml"])
        pipeline_config == IF dir.files["replication.yaml"] = Absent
                           THEN from_config
                           ELSE LoadOrEmpty(dir.files["replication.yaml"])
    IN IF Raised(dagster_config) THEN dagster_config
       ELSE IF Raised(from_config) THEN from_config
       ELSE IF Raised(pipeline_config) THEN pipeline_config
       ELSE IF dagster_config.kind # "map" \/ pipeline_config.kind # "map"
       THEN AttributeError
       ELSE [kind |-> "shown",
             status |-> IF YTruthy(MapGet(dagster_config.map, "enabled", YTrue))
                        THEN "Enabled"
                        ELSE "Disabled"]

\* elt show <name>
CliShow(name) ==
    LET tool == find(fs, name)
    IN /\ nops < MaxOps
       /\ Started
       /\ IF tool = "NotFound"
          THEN last' = Reply("show", "cli", tool, name, "not_found", 0, "none")
          ELSE LET header == show_header(fs[tool][name])
               IN IF ~Raised(header)
                  THEN last' = Reply("show", "cli", tool, name, "ok", 0, header.status)
                  ELSE last' = Reply("show", "cli", tool, name, "error", 0, "none")
       /\ UNCHANGED <<fs, gen, today, fserr, req, out, vtree, vrun, cli>>

\* Names of the repositories the lookup commands are run on
FindNames == {"p1", "p2"}

\* What pipelines/<tool>/<name> can be when a lookup command starts: not
\* there, as create_pipeline left it, disabled since, or with a dagster.yaml
\* that was removed or no longer parses
FindDirKinds == {"none", "created", "disabled", "no_descriptor", "unparsable"}

FindDir(tool, name, k) ==
    LET request == IF tool = "dlt" THEN ReqGithub(name) ELSE ReqPostgres(name)
        dir == create_pipeline(NoDir, request, tool, 0, MaxStack)
    IN CASE k = "none" -> NoDir
         [] k = "created" -> dir
         [] k = "disabled" ->
                WriteFile(dir, "dagster.yaml", set_enabled(dir.files["dagster.yaml"], YFalse))
         [] k = "no_descriptor" -> WriteFile(dir, "dagster.yaml", Absent)
         [] k = "unparsable" -> WriteFile(dir, "dagster.yaml", [kind |-> "invalid"])

FindTrees ==
    {[t \in Tools |-> [n \in FindNames |-> FindDir(t, n, k[t][n])]] :
        k \in [Tools -> [FindNames -> FindDirKinds]]}

InitFind ==
    /\ fs \in FindTrees
    /\ gen = NoGen
    /\ last = NoCall
    /\ today = 0
    /\ nops = 0
    /\ fserr = FALSE
    /\ HarnessIdle

NextFind ==
    \/ \E n \in FindNames, b \in BOOLEAN : CliToggle(n, b)
    \/ \E n \in FindNames, answer \in BOOLEAN : CliDelete(n, answer)
    \/ \E n \in FindNames : CliShow(n)

SpecFind == InitFind /\ [][NextFind]_vars

-----------------------------------------------------------------------------
(* cli/list_pipelines.py and GET /api/pipelines                            *)

S_unknown == <<"u","n","k","n","o","w","n">>
NoDescription == <<T("No description")>>

\* d[k] = v on a plain dict
DictSet(d, k, v) == [x \in DOMAIN d \cup {k} |-> IF x = k THEN v ELSE d[x]]

\* A parsed YAML value that is a dict: scalars and lists carry their kind
IsDict(v) == "kind" \notin DOMAIN v

\* The info dict both _get_pipeline_info functions start from
InfoDefaults(name, tool) ==
    [name |-> name, tool |-> tool, enabled |-> YTrue, source |-> S_unknown,
     destination |-> S_unknown, description |-> NoDescription]

\* cli/list_pipelines._get_pipeline_info: `yaml.safe_load(f) or {}`, two
\* .get calls, and a bare except around each file
cli_pipeline_info(name, dir, tool) ==
    LET info0 == InfoDefaults(name, tool)
        dagster_yaml == dir.files["dagster.yaml"]
        config_file == IF dir.files["config.yaml"] # Absent
                       THEN dir.files["config.yaml"]
                       ELSE dir.files["replication.yaml"]
        d == IF dagster_yaml = Absent THEN YAMLError ELSE LoadOrEmpty(dagster_yaml)
        info1 == IF Raised(d) \/ d.kind # "map" THEN info0
                 ELSE [info0 EXCEPT
                         !.description = MapGet(d.map, "description", info0.description),
                         !.enabled = MapGet(d.map, "enabled", YTrue)]
        c == IF config_file = Absent THEN YAMLError ELSE LoadOrEmpty(config_file)
    IN IF Raised(c) \/ c.kind # "map" THEN info1
       ELSE [info1 EXCEPT
               !.source = MapGet(c.map, "source_type", info1.source),
               !.destination = MapGet(c.map, "destination_type", info1.destination)]

\* `config = yaml.safe_load(f)` followed by `if config:` and a first
\* config.get, inside try/except Exception: the mapping the block goes on
\* with, or nothing
LoadedMapping(file) ==
    IF file = Absent THEN Absent
    ELSE LET config == safe_load(file)
         IN IF Raised(config) \/ config.kind # "map" \/ config.map = EmptyMap
            THEN Absent
            ELSE config

\* The retry fields of web _get_pipeline_info, new format or legacy; a
\* retry_policy that is no dict raises at its first .get and sets none
WithRetryFields(info, dagster_config) ==
    IF MapHas(dagster_config, "retry_policy")
    THEN LET retry_policy == dagster_config.val["retry_policy"]
         IN IF ~IsDict(retry_policy) THEN info
            ELSE DictSet(DictSet(DictSet(DictSet(info,
                    "retries", Get(retry_policy, "max_retries", DefaultRetries)),
                    "retry_delay", Get(retry_policy, "delay", DefaultRetryDelay)),
                    "retry_backoff", Get(retry_policy, "backoff", "LINEAR")),
                    "retry_jitter", Get(retry_policy, "jitter", NONE))
    ELSE DictSet(DictSet(DictSet(DictSet(info,
            "retries", MapGet(dagster_config, "retries", DefaultRetries)),
            "retry_delay", MapGet(dagster_config, "retry_delay", DefaultRetryDelay)),
            "retry_backoff", "LINEAR"),
            "retry_jitter", NONE)

\* web/app_enhanced._get_pipeline_info
web_pipeline_info(name, dir, tool) ==
    LET info0 == InfoDefaults(name, tool)
        d == LoadedMapping(dir.files["dagster.yaml"])
        info1 == IF d = Absent THEN info0
                 ELSE [info0 EXCEPT
                         !.description = MapGet(d.map, "description", info0.description),
                         !.enabled = MapGet(d.map, "enabled", info0.enabled)]
        c == LoadedMapping(dir.files["config.yaml"])
        info2 == IF c = Absent THEN info1
                 ELSE DictSet([info1 EXCEPT
                         !.source = MapGet(c.map, "source_type", info1.source),
                         !.destination = MapGet(c.map, "destination_type",
                                                info1.destination)],
                         "config", MapGet(c.map, "configuration", EmptyDict))
    IN IF d = Absent THEN info2
       ELSE LET g == DictSet(info2, "group",
                        MapGet(d.map, "group", MapGet(d.map, "group_name", "")))
                s == IF MapHas(d.map, "schedule")
                     THEN DictSet(g, "schedule", d.map.val["schedule"]) ELSE g
                k == DictSet(DictSet(DictSet(s,
                        "owners", MapGet(d.map, "owners", <<>>)),
                        "tags", MapGet(d.map, "tags", EmptyDict)),
                        "kinds", MapGet(d.map, "kinds", <<>>))
            IN WithRetryFields(k, d.map)

\* dagster.yaml files of the listed repositories
ListDagsterBase == generate_dagster_yaml(ReqGithub(VName), 0)

ListDagsterFiles ==
    {Absent, [kind |-> "invalid"], [kind |-> "null"], [kind |-> "list"],
     yaml_dump(EmptyMap),
     yaml_dump(ListDagsterBase),
     yaml_dump(MapSet(ListDagsterBase, "enabled", YFalse)),
     yaml_dump(MapDel(ListDagsterBase, "enabled")),
     yaml_dump(MapDel(ListDagsterBase, "retry_policy")),
     yaml_dump(MapSet(MapDel(ListDagsterBase, "retry_policy"), "retries", 7)),
     yaml_dump(MapSet(ListDagsterBase, "retry_policy", [max_retries |-> 4])),
     yaml_dump(MapSet(ListDagsterBase, "retry_policy", [kind |-> "str"]))}

ListConfigFiles ==
    {Absent, [kind |-> "invalid"], [kind |-> "null"], [kind |-> "list"],
     yaml_dump(config_data(ReqPostgres(VName))),
     yaml_dump(MapDel(config_data(ReqPostgres(VName)), "source_type")),
     yaml_dump(MapDel(config_data(ReqPostgres(VName)), "destination_type"))}

ListDirs(tool) ==
    {NoDir}
    \cup {[EmptyDir EXCEPT !.files["dagster.yaml"] = d, !.files["config.yaml"] = c] :
             d \in ListDagsterFiles, c \in ListConfigFiles}
    \cup {[EmptyDir EXCEPT !.files["dagster.yaml"] = d,
                           !.files["replication.yaml"] = yaml_dump(VReplicationFull)] :
             d \in {Absent, yaml_dump(ListDagsterBase)}}

InitList ==
    /\ fs = [t \in Tools |-> [n \in Names |-> NoDir]]
    /\ gen = NoGen
    /\ last = NoCall
    /\ today = 0
    /\ nops = 0
    /\ fserr = FALSE
    /\ req = IdleReq
    /\ out = IdleOut
    /\ vtree \in [Tools -> ListDirs("dlt")]
    /\ vrun = IdleRun
    /\ cli = IdleCli

\* The rows one `for pipeline_dir in sorted(<tool>_dir.iterdir())` loop of
\* elt list adds to the table
CliRows(t, tool, enabled) ==
    IF tool \notin {t, "all"} \/ ~Exists(vtree[t]) THEN <<>>
    ELSE LET info == cli_pipeline_info(VName, vtree[t], t)
         IN IF enabled # NONE /\ info.enabled # enabled THEN <<>> ELSE <<info>>

\* elt list --tool <tool> [--enabled | --disabled]
CliList(tool, enabled) ==
    /\ ~out.done
    /\ out' = Returned("cli_list",
                       [tool |-> tool, enabled |-> enabled,
                        rows |-> [t \in Tools |-> CliRows(t, tool, enabled)]])
    /\ UNCHANGED <<mainVars, req, vtree, vrun, cli>>

\* GET /api/pipelines
HttpList ==
    /\ ~out.done
    /\ out' = Returned("http_list",
                       [t \in Tools |->
                          IF Exists(vtree[t])
                          THEN <<web_pipeline_info(VName, vtree[t], t)>> ELSE <<>>])
    /\ UNCHANGED <<mainVars, req, vtree, vrun, cli>>

NextList ==
    \/ \E tool \in Tools \cup {"all"}, enabled \in {NONE, YTrue, YFalse} :
          CliList(tool, enabled)
    \/ HttpList

SpecList == InitList /\ [][NextList]_vars

-----------------------------------------------------------------------------
(* The CLI commands run with --git-commit: the command, then its git steps *)

\* A command that has got past its filesystem change and is about to open
\* the repository
VcRunning(op, tool, name, arg) ==
    [pc |-> "vc_open", op |-> op, tool |-> tool, name |-> name, arg |-> arg,
     status |-> "ok", exit |-> "running", warning |-> "none",
     committed |-> FALSE, pushed |-> FALSE]

\* A command that ended before any git step
VcEnded(op, tool, name, arg, status) ==
    [pc |-> "done", op |-> op, tool |-> tool, name |-> name, arg |-> arg,
     status |-> status,
     exit |-> IF status = "error" THEN "traceback" ELSE "normal",
     warning |-> "none", committed |-> FALSE, pushed |-> FALSE]

VcPcs == {"vc_open", "vc_stage", "vc_commit", "vc_push"}

CanStart(p) == cli[p].pc \in {"idle", "done"} /\ nops < MaxOps

\* An except handler of the git block that removes what the command wrote
vc_failed_rollback(tree, c) ==
    IF c.op = "create" THEN PutDir(tree, c.tool, c.name, NoDir) ELSE tree

\* `except Exception as e:` of the git block: a warning is printed and the
\* tree is left as the command made it
vc_failed(tree, c) == tree

\* elt scaffold create ... --git-commit up to _git_commit_and_push
VcCreate(p, name, a, answer) ==
    LET tool == choose_tool(a.source_type, a.destination_type)
        dir == create_pipeline(fs[tool][name], cli_request(name, a), tool, today, MaxStack)
    IN /\ CanStart(p)
       /\ Started
       /\ IF Exists(fs[tool][name]) /\ ~answer
          THEN /\ cli' = [cli EXCEPT ![p] = VcEnded("create", tool, name, "none", "aborted")]
               /\ UNCHANGED fs
          ELSE IF Raised(dir)
          THEN /\ cli' = [cli EXCEPT ![p] = VcEnded("create", tool, name, "none", "error")]
               /\ UNCHANGED fs
          ELSE /\ fs' = PutDir(fs, tool, name, dir)
               /\ cli' = [cli EXCEPT ![p] = VcRunning("create", tool, name, "none")]
       /\ UNCHANGED <<gen, last, today, fserr, req, out, vtree, vrun>>

\* elt enable / elt disable ... --git-commit up to the git block
VcToggle(p, name, enabled) ==
    LET tool == find(fs, name)
        b == IF enabled THEN YTrue ELSE YFalse
    IN /\ CanStart(p)
       /\ Started
       /\ IF tool = "NotFound"
          THEN /\ cli' = [cli EXCEPT ![p] = VcEnded("toggle", tool, name, b, "not_found")]
               /\ UNCHANGED fs
          ELSE LET dir == fs[tool][name]
                   file == dir.files["dagster.yaml"]
               IN IF file = Absent
                  THEN /\ cli' = [cli EXCEPT ![p] =
                                     VcEnded("toggle", tool, name, b, "not_found")]
                       /\ UNCHANGED fs
                  ELSE LET new == set_enabled(file, b)
                       IN IF Raised(new)
                          THEN /\ cli' = [cli EXCEPT ![p] =
                                             VcEnded("toggle", tool, name, b, "error")]
                               /\ UNCHANGED fs
                          ELSE /\ fs' = PutDir(fs, tool, name,
                                               WriteFile(dir, "dagster.yaml", new))
                               /\ cli' = [cli EXCEPT ![p] =
                                             VcRunning("toggle", tool, name, b)]
       /\ UNCHANGED <<gen, last, today, fserr, req, out, vtree, vrun>>

\* elt delete ... --git-commit up to the git block
VcDelete(p, name, answer) ==
    LET tool == find(fs, name)
    IN /\ CanStart(p)
       /\ Started
       /\ IF tool = "NotFound"
          THEN /\ cli' = [cli EXCEPT ![p] = VcEnded("delete", tool, name, "none", "not_found")]
               /\ UNCHANGED fs
          ELSE IF ~answer
          THEN /\ cli' = [cli EXCEPT ![p] = VcEnded("delete", tool, name, "none", "aborted")]
               /\ UNCHANGED fs
          ELSE /\ fs' = PutDir(fs, tool, name, NoDir)
               /\ cli' = [cli EXCEPT ![p] = VcRunning("delete", tool, name, "none")]
       /\ UNCHANGED <<gen, last, today, fserr, req, out, vtree, vrun>>

\* A git step raised: the handler's warning, then the command's last lines
VcFailed(p) ==
    /\ fs' = vc_failed(fs, cli[p])
    /\ cli' = [cli EXCEPT ![p].pc = "done", ![p].exit = "normal",
                          ![p].warning = "Git operation failed"]

\* `if (repo_path / ".git").exists(): repo = Repo(repo_path)`
VcOpen(p, has_git, ok) ==
    /\ cli[p].pc = "vc_open"
    /\ IF ~has_git
       THEN /\ cli' = [cli EXCEPT ![p].pc = "done", ![p].exit = "normal"]
            /\ UNCHANGED fs
       ELSE IF ~ok THEN VcFailed(p)
       ELSE /\ cli' = [cli EXCEPT ![p].pc = "vc_stage"]
            /\ UNCHANGED fs
    /\ UNCHANGED <<gen, last, today, nops, fserr, req, out, vtree, vrun>>

\* repo.index.add([...]), or for delete repo.index.remove([...], r=True,
\* working_tree=True) of a directory the command has already removed
VcStage(p, ok) ==
    /\ cli[p].pc = "vc_stage"
    /\ IF ~ok THEN VcFailed(p)
       ELSE /\ cli' = [cli EXCEPT ![p].pc = "vc_commit"]
            /\ UNCHANGED fs
    /\ UNCHANGED <<gen, last, today, nops, fserr, req, out, vtree, vrun>>

\* repo.index.commit(message)
VcCommit(p, ok) ==
    /\ cli[p].pc = "vc_commit"
    /\ IF ~ok THEN VcFailed(p)
       ELSE /\ cli' = [cli EXCEPT ![p].pc = "vc_push", ![p].committed = TRUE]
            /\ UNCHANGED fs
    /\ UNCHANGED <<gen, last, today, nops, fserr, req, out, vtree, vrun>>

\* `if repo.remotes:` and origin.push() in its own try/except
VcPush(p, has_remote, ok) ==
    /\ cli[p].pc = "vc_push"
    /\ cli' = [cli EXCEPT ![p].pc = "done", ![p].exit = "normal",
                          ![p].pushed = has_remote /\ ok,
                          ![p].warning = IF has_remote /\ ~ok
                                         THEN "Could not push" ELSE "none"]
    /\ UNCHANGED <<fs, gen, last, today, nops, fserr, req, out, vtree, vrun>>

NextGit ==
    \/ \E p \in Procs, n \in Names, a \in CliArgs, answer \in BOOLEAN :
          VcCreate(p, n, a, answer)
    \/ \E p \in Procs, n \in Names, b \in BOOLEAN : VcToggle(p, n, b)
    \/ \E p \in Procs, n \in Names, answer \in BOOLEAN : VcDelete(p, n, answer)
    \/ \E p \in Procs, has_git \in BOOLEAN, ok \in BOOLEAN : VcOpen(p, has_git, ok)
    \/ \E p \in Procs, ok \in BOOLEAN : VcStage(p, ok)
    \/ \E p \in Procs, ok \in BOOLEAN : VcCommit(p, ok)
    \/ \E p \in Procs, has_remote \in BOOLEAN, ok \in BOOLEAN : VcPush(p, has_remote, ok)

SpecGit == Init /\ [][NextGit]_vars

-----------------------------------------------------------------------------
(* Two processes working on one repository, a statement at a time          *)

FileNotFoundError == [kind |-> "raised", error |-> "FileNotFoundError"]

\* A command between two of its statements
RaceRunning(pc, op, tool, name, arg, read) ==
    [pc |-> pc, op |-> op, tool |-> tool, name |-> name, arg |-> arg,
     read |-> read, step |-> 0, status |-> "running", error |-> "none"]

\* A command that has ended
RaceEnded(op, tool, name, arg, status, error) ==
    [pc |-> "done", op |-> op, tool |-> tool, name |-> name, arg |-> arg,
     read |-> Absent, step |-> 0, status |-> status, error |-> error]

RaceEnd(c, status, error) ==
    [c EXCEPT !.pc = "done", !.status = status, !.error = error]

\* A write step that starts from the file as it is now
WriteSourceFresh(c, file) == file

\* What the write step of a command starts from: the `config` it loaded at
\* its read step
WriteSource(c, file) == c.read

\* _toggle_pipeline from the search to `config = yaml.safe_load(f) or {}`
RaceToggleRead(p, name, enabled) ==
    LET tool == find(fs, name)
        b == IF enabled THEN YTrue ELSE YFalse
        file == fs[tool][name].files["dagster.yaml"]
    IN /\ CanStart(p)
       /\ Started
       /\ cli' = [cli EXCEPT ![p] =
                    IF tool = "NotFound" \/ file = Absent
                    THEN RaceEnded("toggle", tool, name, b, "not_found", "none")
                    ELSE IF Raised(set_enabled(file, b))
                    THEN RaceEnded("toggle", tool, name, b, "error",
                                   set_enabled(file, b).error)
                    ELSE RaceRunning("write", "toggle", tool, name, b, file)]
       /\ UNCHANGED <<fs, gen, last, today, fserr, req, out, vtree, vrun>>

\* update_pipeline_metadata from the directory check to the load of
\* dagster.yaml
RaceMetadataRead(p, tool, name, metadata) ==
    LET dir == fs[tool][name]
        file == dir.files["dagster.yaml"]
    IN /\ CanStart(p)
       /\ Started
       /\ cli' = [cli EXCEPT ![p] =
                    IF ~Exists(dir)
                    THEN RaceEnded("metadata", tool, name, metadata, "not_found", "none")
                    ELSE IF Raised(update_metadata(file, metadata))
                    THEN RaceEnded("metadata", tool, name, metadata, "error",
                                   update_metadata(file, metadata).error)
                    ELSE RaceRunning("write", "metadata", tool, name, metadata, file)]
       /\ UNCHANGED <<fs, gen, last, today, fserr, req, out, vtree, vrun>>

\* `with open(dagster_yaml_path, "w") as f: yaml.dump(config, f, ...)` of
\* either writer: open() fails when the directory is gone
RaceWrite(p) ==
    LET c == cli[p]
        dir == fs[c.tool][c.name]
    IN /\ c.pc = "write"
       /\ IF ~Exists(dir)
          THEN /\ cli' = [cli EXCEPT ![p] = RaceEnd(c, "error", "FileNotFoundError")]
               /\ UNCHANGED fs
          ELSE LET from == WriteSource(c, dir.files["dagster.yaml"])
                   new == IF c.op = "toggle" THEN set_enabled(from, c.arg)
                          ELSE update_metadata(from, c.arg)
               IN IF Raised(new)
                  THEN /\ cli' = [cli EXCEPT ![p] = RaceEnd(c, "error", new.error)]
                       /\ UNCHANGED fs
                  ELSE /\ fs' = PutDir(fs, c.tool, c.name,
                                       WriteFile(dir, "dagster.yaml", new))
                       /\ cli' = [cli EXCEPT ![p] = RaceEnd(c, "ok", "none")]
       /\ UNCHANGED <<gen, last, today, nops, fserr, req, out, vtree, vrun>>

\* cli delete: the search, the prompt and shutil.rmtree
RaceDelete(p, name, answer) ==
    LET tool == find(fs, name)
    IN /\ CanStart(p)
       /\ Started
       /\ IF tool = "NotFound"
          THEN /\ cli' = [cli EXCEPT ![p] =
                            RaceEnded("delete", tool, name, "none", "not_found", "none")]
               /\ UNCHANGED fs
          ELSE IF ~answer
          THEN /\ cli' = [cli EXCEPT ![p] =
                            RaceEnded("delete", tool, name, "none", "aborted", "none")]
               /\ UNCHANGED fs
          ELSE /\ fs' = PutDir(fs, tool, name, NoDir)
               /\ cli' = [cli EXCEPT ![p] =
                            RaceEnded("delete", tool, name, "none", "ok", "none")]
       /\ UNCHANGED <<gen, last, today, fserr, req, out, vtree, vrun>>

\* scaffold.create up to its call of create_pipeline
RaceCreate(p, name, a, answer) ==
    LET tool == choose_tool(a.source_type, a.destination_type)
    IN /\ CanStart(p)
       /\ Started
       /\ cli' = [cli EXCEPT ![p] =
                    IF Exists(fs[tool][name]) /\ ~answer
                    THEN RaceEnded("create", tool, name, a, "aborted", "none")
                    ELSE RaceRunning("create", "create", tool, name, a, Absent)]
       /\ UNCHANGED <<fs, gen, last, today, fserr, req, out, vtree, vrun>>

\* The next statement of create_pipeline: mkdir, then the four writes, each
\* an open() that fails when the directory is gone
RaceCreateStep(p) ==
    LET c == cli[p]
        dir == fs[c.tool][c.name]
        request == cli_request(c.name, c.arg)
    IN /\ c.pc = "create"
       /\ IF c.step = 0
          THEN /\ fs' = PutDir(fs, c.tool, c.name, mkdir(dir))
               /\ cli' = [cli EXCEPT ![p].step = 1]
          ELSE IF ~Exists(dir)
          THEN /\ cli' = [cli EXCEPT ![p] = RaceEnd(c, "error", "FileNotFoundError")]
               /\ UNCHANGED fs
          ELSE LET d == CASE c.step = 1 -> write_program(dir, request, c.tool, MaxStack)
                          [] c.step = 2 -> write_config(dir, request)
                          [] c.step = 3 -> write_readme(dir, request, c.tool)
                          [] c.step = 4 -> write_dagster(dir, request, today)
               IN IF Raised(d)
                  THEN /\ cli' = [cli EXCEPT ![p] = RaceEnd(c, "error", d.error)]
                       /\ UNCHANGED fs
                  ELSE /\ fs' = PutDir(fs, c.tool, c.name, d)
                       /\ cli' = [cli EXCEPT ![p] =
                                     IF c.step = 4 THEN RaceEnd(c, "ok", "none")
                                     ELSE [c EXCEPT !.step = c.step + 1]]
       /\ UNCHANGED <<gen, last, today, nops, fserr, req, out, vtree, vrun>>

\* The repository holds the dlt pipeline p1 when the processes start
InitRace ==
    /\ fs = [t \in Tools |-> [n \in Names |->
                IF t = "dlt"
                THEN create_pipeline(NoDir, ReqGithub(n), "dlt", 0, MaxStack)
                ELSE NoDir]]
    /\ gen = NoGen
    /\ last = NoCall
    /\ today = 0
    /\ nops = 0
    /\ fserr = FALSE
    /\ HarnessIdle

NextRace ==
    \/ \E p \in Procs, n \in Names, b \in BOOLEAN : RaceToggleRead(p, n, b)
    \/ \E p \in Procs, t \in Tools, n \in Names, m \in MetadataBodies :
          RaceMetadataRead(p, t, n, m)
    \/ \E p \in Procs : RaceWrite(p)
    \/ \E p \in Procs, n \in Names, answer \in BOOLEAN : RaceDelete(p, n, answer)
    \/ \E p \in Procs, n \in Names, a \in CliArgs, answer \in BOOLEAN :
          RaceCreate(p, n, a, answer)
    \/ \E p \in Procs : RaceCreateStep(p)

SpecRace == InitRace /\ [][NextRace]_vars
-----------------------------------------------------------------------------
(* Properties                                                              *)

\* The dagster.yaml of a pipeline directory
Descriptor(tree, tool, name) == tree[tool][name].files["dagster.yaml"]

\* Key k is in both mappings with one value, or in neither
SameKey(a, b, k) ==
    /\ MapHas(a, k) <=> MapHas(b, k)
    /\ MapHas(a, k) => a.val[k] = b.val[k]

\* A handler that starts and replies in one step (every one but those that
\* go on into create_pipeline) has just replied with last'
Replied(op) == nops' = nops + 1 /\ gen' = gen /\ last'.op = op

OtherDirsUnchanged(tool, name) ==
    \A t \in Tools, n \in Names : <<t, n>> # <<tool, name>> => fs'[t][n] = fs[t][n]

MetadataFields == {"description", "group", "owners", "tags", "kinds", "retry_policy"}

\* C1: a successful enable/disable or HTTP toggle with value b on a pipeline
\* whose dagster.yaml is a mapping leaves enabled = b in it, every other key
\* of it with the value it had, no key added but enabled, every other file of
\* the directory and every other directory as they were; the same call on
\* the result changes nothing.
C1_ToggleStep ==
    (Replied("toggle") /\ last'.status = "ok") =>
        LET tool == last'.tool
            name == last'.name
            old == Descriptor(fs, tool, name)
            new == Descriptor(fs', tool, name)
        IN old.kind = "map" =>
            /\ new.kind = "map"
            /\ MapHas(new.map, "enabled")
            /\ new.map.val["enabled"] = last'.arg
            /\ DOMAIN new.map.val = DOMAIN old.map.val \cup {"enabled"}
            /\ \A k \in DOMAIN old.map.val \ {"enabled"} : SameKey(old.map, new.map, k)
            /\ \A f \in FileNames \ {"dagster.yaml"} :
                  fs'[tool][name].files[f] = fs[tool][name].files[f]
            /\ OtherDirsUnchanged(tool, name)
            /\ set_enabled(new, last'.arg) = new

C1_SetEnabledFrame == [][C1_ToggleStep]_vars

\* A pipeline with description, schedule and retry policy has been disabled
C1_Witness ==
    /\ last.op = "toggle"
    /\ last.status = "ok"
    /\ last.arg = YFalse
    /\ Exists(fs[last.tool][last.name])
    /\ LET d == Descriptor(fs, last.tool, last.name)
       IN /\ d.kind = "map"
          /\ {"enabled", "description", "schedule", "retry_policy"}
                \subseteq DOMAIN d.map.val
          /\ d.map.val["enabled"] = YFalse

\* C2: when create_pipeline returns from its last write on a directory that
\* existed before the call (HTTP update, confirmed CLI overwrite), the
\* directory holds exactly what the same request and tool give in an empty
\* directory.
C2_LastWrite ==
    (gen.active /\ gen.existed /\ gen.step = 4 /\ gen'.active /\ gen'.step = 5) =>
        fs'[gen.tool][gen.name] =
            create_pipeline(NoDir, gen.request, gen.tool, today, MaxStack)

C2_RegenerateEqualsFresh == [][C2_LastWrite]_vars

\* An update has rewritten a directory whose previous artifacts came from
\* another request
C2_Witness ==
    /\ gen.active
    /\ gen.existed
    /\ gen.step = 5
    /\ gen.op = "update"
    /\ gen.request = ReqPostgres(gen.name)
    /\ gen.tool = "dlt"
    /\ Exists(fs[gen.tool][gen.name])
    /\ fs[gen.tool][gen.name].files["config.yaml"] = yaml_dump(config_data(gen.request))

HasAllArtifacts(tool, dir) ==
    \A f \in {ProgramFile(tool), "config.yaml", "README.md", "dagster.yaml"} :
        dir.files[f] # Absent

\* C3: in every state, those between the steps of create_pipeline and those
\* after a failed step included, each pipeline directory is absent or holds
\* all four of its artifacts.
C3_CreateAtomic ==
    \A t \in Tools, n \in Names :
        Exists(fs[t][n]) => HasAllArtifacts(t, fs[t][n])

\* C4: every successful in-place mutation (enable/disable, HTTP toggle, HTTP
\* metadata update) leaves description, group, owners, tags, kinds and
\* retry_policy of dagster.yaml as they were.
C4_InPlaceStep ==
    ((Replied("toggle") \/ Replied("metadata")) /\ last'.status = "ok") =>
        LET old == Descriptor(fs, last'.tool, last'.name)
            new == Descriptor(fs', last'.tool, last'.name)
        IN old.kind = "map" =>
            \A k \in MetadataFields : SameKey(old.map, new.map, k)

C4_OnlyEnabledMutated == [][C4_InPlaceStep]_vars

\* What a metadata body asks for under key k of dagster.yaml
BodyText(body, k) == IF k \in DOMAIN body THEN body[k] ELSE <<>>

\* C4 amended: enable/disable and HTTP toggle leave the six metadata fields
\* as they were; HTTP metadata update sets enabled (default true), group
\* (default "default") and retry_policy (defaults 2 and 30) from its body,
\* sets description, owners, tags and kinds from the body or removes them
\* when the body gives none, and leaves every other key (schedule,
\* partitions, incremental) as it was.
C4_AmendedStep ==
    /\ (Replied("toggle") /\ last'.status = "ok") =>
        LET old == Descriptor(fs, last'.tool, last'.name)
            new == Descriptor(fs', last'.tool, last'.name)
        IN old.kind = "map" =>
            \A k \in MetadataFields : SameKey(old.map, new.map, k)
    /\ (Replied("metadata") /\ last'.status = "ok") =>
        LET old == Descriptor(fs, last'.tool, last'.name)
            new == Descriptor(fs', last'.tool, last'.name)
            body == last'.arg
        IN /\ new.kind = "map"
           /\ new.map.val["enabled"] = Get(body, "enabled", YTrue)
           /\ new.map.val["group"] = Get(body, "group_name", "default")
           /\ new.map.val["retry_policy"]["max_retries"] = Get(body, "retries", 2)
           /\ new.map.val["retry_policy"]["delay"] = Get(body, "retry_delay", 30)
           /\ \A k \in {"description", "owners", "kinds"} :
                 IF BodyText(body, k) # <<>>
                 THEN MapHas(new.map, k) /\ new.map.val[k] = body[k]
                 ELSE ~MapHas(new.map, k)
           /\ IF "tags" \in DOMAIN body /\ body["tags"] # EmptyDict
              THEN MapHas(new.map, "tags") /\ new.map.val["tags"] = body["tags"]
              ELSE ~MapHas(new.map, "tags")
           /\ old.kind = "map" =>
                 \A k \in (DOMAIN old.map.val \cup DOMAIN new.map.val)
                          \ (MetadataFields \cup {"enabled"}) :
                     SameKey(old.map, new.map, k)

C4_Amended == [][C4_AmendedStep]_vars

\* A metadata update with an empty body has run on a pipeline that was
\* created with a description and a schedule
C4_Witness ==
    /\ last.op = "metadata"
    /\ last.status = "ok"
    /\ last.arg = EmptyDict
    /\ Exists(fs[last.tool][last.name])
    /\ LET d == Descriptor(fs, last.tool, last.name)
       IN /\ d.kind = "map"
          /\ MapHas(d.map, "schedule")
          /\ ~MapHas(d.map, "description")
          /\ d.map.val["group"] = "default"

AllComplete(tree) ==
    \A t \in Tools, n \in Names : Exists(tree[t][n]) => HasAllArtifacts(t, tree[t][n])

\* C5: after a successful delete(name), run while no create is in progress
\* on a repository whose pipeline directories are all complete, the deleted
\* directory is gone and find(name) reports NotFound.
C5_DeleteStep ==
    (Replied("delete") /\ last'.status = "ok" /\ ~gen.active /\ AllComplete(fs)) =>
        /\ ~Exists(fs'[last'.tool][last'.name])
        /\ find(fs', last'.name) = "NotFound"

C5_DeleteThenNotFound == [][C5_DeleteStep]_vars

\* C6: while a create request (HTTP or CLI) runs for a directory that
\* existed when it arrived, no step of create_pipeline modifies, replaces or
\* removes an artifact the directory holds.
C6_CreateStep ==
    (/\ gen.active
     /\ gen.op = "create"
     /\ gen.existed
     /\ gen'.active
     /\ gen'.step = gen.step + 1
     /\ Exists(fs[gen.tool][gen.name])) =>
        /\ Exists(fs'[gen.tool][gen.name])
        /\ \A f \in FileNames :
              fs[gen.tool][gen.name].files[f] # Absent =>
                 fs'[gen.tool][gen.name].files[f] = fs[gen.tool][gen.name].files[f]

C6_CreateOnExistingAborts == [][C6_CreateStep]_vars

\* C6 amended: an HTTP POST for a name whose directory exists is answered
\* with an error (HTTP 500) and changes nothing; only a CLI create whose
\* overwrite prompt was confirmed runs create_pipeline on an existing
\* directory, and a declined prompt changes nothing.
C6_AmendedStep ==
    /\ (~gen.active /\ gen'.active /\ gen'.op = "create" /\ gen'.via = "http")
          => ~Exists(fs[gen'.tool][gen'.name])
    /\ (gen'.active /\ gen'.op = "create" /\ gen'.existed) => gen'.via = "cli"
    /\ (Replied("create") /\ last'.status \in {"conflict", "aborted"}) =>
          /\ Exists(fs[last'.tool][last'.name])
          /\ fs' = fs
          /\ ~gen'.active
          /\ last'.status = "conflict" <=> last'.via = "http"
          /\ last'.via = "http" => last'.code = 500

C6_Amended == [][C6_AmendedStep]_vars

\* An HTTP POST has been refused for a pipeline that exists
C6_Witness ==
    /\ last.op = "create"
    /\ last.via = "http"
    /\ last.status = "conflict"
    /\ Exists(fs[last.tool][last.name])
    /\ HasAllArtifacts(last.tool, fs[last.tool][last.name])

\* A pipeline directory validate must report on
Malformed(tool, dir) ==
    \/ dir.files["dagster.yaml"].kind # "map"
    \/ dir.files["dagster.yaml"] = yaml_dump(EmptyMap)
    \/ /\ MapHas(dir.files["dagster.yaml"].map, "schedule")
       /\ dir.files["dagster.yaml"].map.val["schedule"].kind # "map"
    \/ /\ tool = "sling"
       /\ \/ dir.files["replication.yaml"].kind # "map"
          \/ dir.files["replication.yaml"] = yaml_dump(EmptyMap)

\* C7: validate never ends with an exception, and when it has finished every
\* pipeline whose dagster.yaml or replication.yaml is missing, unparsable,
\* empty, not a mapping, or has a schedule that is not a mapping, has an
\* issue in the list.
C7_ValidateReportsMalformed ==
    /\ vrun.pc # "raised"
    /\ vrun.pc = "done" =>
         \A t \in Tools :
            (Exists(vtree[t]) /\ Malformed(t, vtree[t])) =>
               \E i \in DOMAIN vrun.issues : vrun.issues[i].tool = t

\* C8: the dlt program generated for a rest_api request with advanced_mode
\* set and an advanced_config that is not valid JSON is the simple-mode
\* program.
C8_BadJsonFallsBack ==
    (/\ out.done
     /\ out.fn = "generate_dlt_pipeline"
     /\ req.source_type = S_rest_api
     /\ UsesAdvanced(req.source_configuration)
     /\ ~JsonValid(req.source_configuration["advanced_config"]))
    => out.value = rest_api_simple_body(req)

DatabaseSources == {S_postgres, S_mysql, S_mongodb, S_mssql, S_oracle}

\* C9: choose_tool returns "dlt" or "sling" for every source and
\* destination, "sling" exactly when the lower-cased source is postgres,
\* mysql, mongodb, mssql or oracle, and the same tool for every destination.
C9_ChooseTool ==
    (out.done /\ out.fn = "choose_tool") =>
        /\ out.value \in {"dlt", "sling"}
        /\ out.value = "sling" <=> Lower(req.source_type) \in DatabaseSources
        /\ \A d \in GenDestinations : choose_tool(req.source_type, d) = out.value

\* choose_tool has answered sling for a database source spelled in capitals
C9_Witness ==
    /\ out.done
    /\ out.fn = "choose_tool"
    /\ req.source_type = S_MYSQL
    /\ req.destination_type = S_snowflake
    /\ out.value = "sling"

\* C10: when no create or update is in progress and no filesystem error has
\* occurred, every directory under dlt holds pipeline.py and no
\* replication.yaml, every directory under sling holds replication.yaml and
\* no pipeline.py, and each holds config.yaml, dagster.yaml and README.md.
C10_ArtifactsComplete ==
    (~gen.active /\ ~fserr) =>
        \A t \in Tools, n \in Names :
            Exists(fs[t][n]) =>
                /\ HasAllArtifacts(t, fs[t][n])
                /\ \A f \in {"pipeline.py", "replication.yaml"} \ {ProgramFile(t)} :
                      fs[t][n].files[f] = Absent

-----------------------------------------------------------------------------
(* Properties of the generator                                             *)

\* The request asks for incremental loading and names no initial cursor
\* value, so that the day of the call goes into dagster.yaml
StartsToday(request) ==
    /\ request.incremental_enabled
    /\ Truthy(request.cursor_field)
    /\ ~Truthy(request.cursor_initial_value)

\* create_pipeline has returned a directory
Created == out.done /\ out.fn = "create_pipeline" /\ ~Raised(out.value.dir)

CreatedOn(day) == create_pipeline(NoDir, req, out.value.tool, day, MaxStack)

\* C11: create_pipeline called with the same request and tool on any two
\* days writes the same dagster.yaml and the same config.yaml.
C11_SameArtifactsAnyDay ==
    Created =>
        \A d \in 0..MaxDays :
            /\ CreatedOn(d).files["dagster.yaml"] = out.value.dir.files["dagster.yaml"]
            /\ CreatedOn(d).files["config.yaml"] = out.value.dir.files["config.yaml"]

\* C11 amended: config.yaml is the same on any two days; dagster.yaml is the
\* same when the two calls are made on the same day or the request is not an
\* incremental one without an initial cursor value; for such a request on two
\* different days the two dagster.yaml have the same keys and differ in the
\* partitions block alone, whose start is the day of each call.
C11_Amended ==
    Created =>
        \A d \in 0..MaxDays :
            LET mine == out.value.dir.files["dagster.yaml"].map
                other == CreatedOn(d).files["dagster.yaml"].map
            IN /\ CreatedOn(d).files["config.yaml"] = out.value.dir.files["config.yaml"]
               /\ (d = today \/ ~StartsToday(req)) => other = mine
               /\ other.keys = mine.keys
               /\ \A k \in DOMAIN mine.val \ {"partitions"} : other.val[k] = mine.val[k]
               /\ (StartsToday(req) /\ d # today) =>
                     /\ other.val["partitions"] # mine.val["partitions"]
                     /\ other.val["partitions"].time.start = strftime(d)
                     /\ mine.val["partitions"].time.start = strftime(today)

\* create_pipeline has run, on the second day, for an incremental request
\* without an initial cursor value
C11_Witness ==
    /\ Created
    /\ StartsToday(req)
    /\ today = 1
    /\ out.value.dir.files["dagster.yaml"].map.val["partitions"].time.start = strftime(1)
    /\ out.value.dir.files["config.yaml"] = yaml_dump(config_data(req))

\* generate_dagster_yaml has returned
Described == out.done /\ out.fn = "generate_dagster_yaml"

\* The partition mode a dagster.yaml is in
YamlMode(config) ==
    IF ~MapHas(config, "partitions")
    THEN IF MapHas(config, "incremental") THEN "mixed" ELSE "none"
    ELSE LET p == config.val["partitions"]
         IN IF MapHas(config, "incremental")
            THEN IF p.type = "time" /\ "time" \in DOMAIN p THEN "incremental" ELSE "mixed"
            ELSE IF p.type = "time" /\ DOMAIN p = {"enabled", "type", "time"} THEN "time"
            ELSE IF p.type = "static" /\ DOMAIN p = {"enabled", "type", "static"}
            THEN "static"
            ELSE "mixed"

AsksIncremental(request) ==
    request.incremental_enabled /\ request.cursor_field \notin {NONE, ""}

\* C18: the generated dagster.yaml is in exactly one partition mode, the one
\* the request asks for: incremental for incremental_enabled with a cursor
\* field, otherwise with partitions_enabled a time block for type time and a
\* static block for type static, otherwise none; no incremental block without
\* a cursor field.
C18_ModeOfRequest ==
    Described =>
        LET mode == YamlMode(out.value)
        IN /\ mode # "mixed"
           /\ AsksIncremental(req) => mode = "incremental"
           /\ (~AsksIncremental(req) /\ req.partitions_enabled) =>
                 /\ mode \in {"time", "static"}
                 /\ req.partition_type = "time" => mode = "time"
                 /\ req.partition_type = "static" => mode = "static"
           /\ (~AsksIncremental(req) /\ ~req.partitions_enabled) => mode = "none"
           /\ MapHas(out.value, "incremental") => req.cursor_field \notin {NONE, ""}

\* C18 amended: as C18, but with partitions_enabled the mode is time for
\* partition_type time, static for partition_type static with at least one
\* partition key, and none for every other case (static without keys, no
\* type, an unknown type).
C18_Amended ==
    Described =>
        LET mode == YamlMode(out.value)
        IN /\ mode # "mixed"
           /\ AsksIncremental(req) => mode = "incremental"
           /\ (~AsksIncremental(req) /\ req.partitions_enabled) =>
                 mode = IF req.partition_type = "time" THEN "time"
                        ELSE IF req.partition_type = "static" /\ req.partition_keys # <<>>
                        THEN "static"
                        ELSE "none"
           /\ (~AsksIncremental(req) /\ ~req.partitions_enabled) => mode = "none"
           /\ MapHas(out.value, "incremental") => req.cursor_field \notin {NONE, ""}

\* A request with partitions_enabled, type static and no keys has been given
\* a dagster.yaml without partitions
C18_Witness ==
    /\ Described
    /\ req.partitions_enabled
    /\ ~req.incremental_enabled
    /\ req.partition_type = "static"
    /\ req.partition_keys = <<>>
    /\ ~MapHas(out.value, "partitions")

\* C19: for incremental_enabled with a non-empty cursor_field, dagster.yaml
\* has partitions enabled, of type time, starting at cursor_initial_value
\* when one is given and at the day of the call otherwise, with
\* cron_schedule = partition_frequency, and an incremental block with the
\* cursor field and initial value, whatever the explicit partition fields.
C19_IncrementalBlock ==
    (Described /\ AsksIncremental(req)) =>
        /\ MapHas(out.value, "partitions")
        /\ MapHas(out.value, "incremental")
        /\ LET p == out.value.val["partitions"]
               i == out.value.val["incremental"]
           IN /\ DOMAIN p = {"enabled", "type", "time"}
              /\ p.enabled = YTrue
              /\ p.type = "time"
              /\ p.time.start = IF req.cursor_initial_value \notin {NONE, ""}
                                THEN req.cursor_initial_value
                                ELSE Dates[today + 1]
              /\ p.time.cron_schedule = req.partition_frequency
              /\ i.cursor_field = req.cursor_field
              /\ i.initial_value = req.cursor_initial_value

\* An incremental request that also asks for static partitions has been
\* described on the second day
C19_Witness ==
    /\ Described
    /\ AsksIncremental(req)
    /\ req.cursor_initial_value = NONE
    /\ req.partitions_enabled
    /\ req.partition_type = "static"
    /\ req.partition_keys # <<>>
    /\ today = 1
    /\ out.value.val["partitions"].time.start = "2026-11-05"

\* The table names of a comma-separated list
ListedTables(tables) == StripAll(SplitComma(tables, <<>>))

\* C20: for a request that choose_tool gives to sling, replication.yaml has source and target upper-cased and mode
\* full-refresh; with a tables list, one streams entry per listed table,
\* keyed public.<table> and mapped to <UPPER-CASED DESTINATION>.<table>;
\* with no tables exactly one placeholder entry.
C20_SlingStreams ==
    (/\ out.done
     /\ out.fn = "generate_sling_replication"
     /\ choose_tool(req.source_type, req.destination_type) = "sling") =>
        LET r == out.value.val
            tables == Get(req.source_configuration, "tables", <<>>)
            listed == ListedTables(tables)
        IN /\ r.source = Upper(req.source_type)
           /\ r.target = Upper(req.destination_type)
           /\ r.defaults.mode = "full-refresh"
           /\ IF tables # <<>>
              THEN /\ Len(r.streams.keys) = Len(listed)
                   /\ \A i \in DOMAIN listed :
                         /\ MapHas(r.streams, S_public_dot \o listed[i])
                         /\ r.streams.val[S_public_dot \o listed[i]] =
                               [object |-> Upper(req.destination_type) \o S_dot
                                           \o listed[i]]
              ELSE Len(r.streams.keys) = 1


-----------------------------------------------------------------------------
(* Namespaces                                                              *)

InBothNamespaces(tree, name) == Exists(tree["dlt"][name]) /\ Exists(tree["sling"][name])

\* C13: pipeline names are unique across the two tool namespaces: whenever no
\* create is in progress and every pipeline directory is complete, no name
\* exists both as pipelines/dlt/<name> and as pipelines/sling/<name>.
C13_NamesUnique ==
    (~gen.active /\ ~fserr /\ AllComplete(fs)) =>
        \A n \in Names : ~InBothNamespaces(fs, n)

-----------------------------------------------------------------------------
(* Lookup by name                                                          *)

LookupCommands == {"toggle", "delete", "show"}

\* A CLI command that looks its pipeline up by name has just replied
Looked == nops' = nops + 1 /\ last'.via = "cli" /\ last'.op \in LookupCommands

\* Everything but pipelines/<tool>/<name> is as it was
OnlyResolvedChanged(tool, name) ==
    \A t \in Tools, n \in FindNames :
        <<t, n>> # <<tool, name>> => fs'[t][n] = fs[t][n]

\* C12: a CLI show, enable/disable or delete of <name> resolves to
\* pipelines/dlt/<name> exactly when that directory exists and to
\* pipelines/sling/<name> exactly when it does not and the sling one does;
\* show prints the status held by the resolved directory and changes
\* nothing, and enable/disable and delete leave every directory but the
\* resolved one (the same name's directory under the other tool included)
\* unchanged.
C12_FindStep ==
    Looked =>
        LET name == last'.name
            tool == last'.tool
        IN /\ tool = "dlt" <=> Exists(fs["dlt"][name])
           /\ tool = "sling" <=> (~Exists(fs["dlt"][name]) /\ Exists(fs["sling"][name]))
           /\ tool \in Tools => OnlyResolvedChanged(tool, name)
           /\ tool \notin Tools => fs' = fs
           /\ last'.op = "show" => fs' = fs
           /\ (last'.op = "show" /\ last'.status = "ok") =>
                 (last'.arg = "Disabled" <=>
                     LET file == Descriptor(fs, tool, name)
                     IN /\ file # Absent
                        /\ file.kind = "map"
                        /\ MapGet(file.map, "enabled", YTrue) = YFalse)

C12_FindResolvesDltFirst == [][C12_FindStep]_vars

\* A name held by both tools, a second pipeline beside it, and a command that
\* has just changed the dlt directory of that name
C12_Witness ==
    /\ last.via = "cli"
    /\ last.op \in {"toggle", "delete"}
    /\ last.status = "ok"
    /\ last.tool = "dlt"
    /\ Exists(fs["sling"][last.name])
    /\ \E n \in FindNames : n # last.name /\ Exists(fs["dlt"][n])

-----------------------------------------------------------------------------
(* validate: incomplete and well-formed pipelines                          *)

ValidateEnded == vrun.pc \in {"done", "raised"}

HasIssue(tool, problems) ==
    \E i \in DOMAIN vrun.issues :
        vrun.issues[i].tool = tool /\ vrun.issues[i].problem \in problems

NoIssue(tool) == \A i \in DOMAIN vrun.issues : vrun.issues[i].tool # tool

\* replication.yaml is a mapping without a non-empty value under key k
LacksField(file, k, empty) ==
    file # Absent /\ file.kind = "map" /\ MapGet(file.map, k, empty) = empty

\* replication.yaml is a mapping with non-empty streams, source and target
ReplicationComplete(file) ==
    /\ file # Absent
    /\ file.kind = "map"
    /\ MapGet(file.map, "streams", EmptyMap) # EmptyMap
    /\ MapGet(file.map, "source", <<>>) # <<>>
    /\ MapGet(file.map, "target", <<>>) # <<>>

\* pipeline.py is there and holds the text 'def run('
ProgramComplete(file) == file # Absent /\ file.has_run

\* dagster.yaml is a non-empty mapping with a description whose schedule, if
\* marked enabled, carries a cron_schedule
DescriptorWellFormed(file) ==
    /\ file # Absent
    /\ file.kind = "map"
    /\ MapGet(file.map, "description", NoText) # NoText
    /\ MapHas(file.map, "schedule") =>
          LET schedule == file.map.val["schedule"]
          IN (schedule.kind = "map" /\ YTruthy(Get(schedule.val, "enabled", "null")))
                => Get(schedule.val, "cron_schedule", "") # ""

WellFormed(tool, dir) ==
    /\ Exists(dir)
    /\ DescriptorWellFormed(dir.files["dagster.yaml"])
    /\ IF tool = "dlt" THEN ProgramComplete(dir.files["pipeline.py"])
                       ELSE ReplicationComplete(dir.files["replication.yaml"])

\* C16: when validate has ended, the issues it reported include one for a
\* sling pipeline whose replication.yaml has no non-empty streams, source or
\* target, and one for a dlt pipeline whose pipeline.py lacks 'def run(';
\* they include none for a pipeline whose dagster.yaml and program or
\* replication artifact are well formed.
C16_ValidateFlagsIncomplete ==
    ValidateEnded =>
        /\ \A k \in {"source", "target"} :
              (Exists(vtree["sling"])
               /\ LacksField(vtree["sling"].files["replication.yaml"], k, <<>>)) =>
                 HasIssue("sling", {"Missing 'source' in replication.yaml",
                                    "Missing 'target' in replication.yaml",
                                    "Empty replication.yaml"})
        /\ (Exists(vtree["sling"])
            /\ LacksField(vtree["sling"].files["replication.yaml"], "streams", EmptyMap)) =>
              HasIssue("sling", {"Missing 'streams' in replication.yaml",
                                 "Empty replication.yaml"})
        /\ (Exists(vtree["dlt"])
            /\ vtree["dlt"].files["pipeline.py"] # Absent
            /\ ~vtree["dlt"].files["pipeline.py"].has_run) =>
              HasIssue("dlt", {"pipeline.py missing run() function"})
        /\ \A t \in Tools : WellFormed(t, vtree[t]) => NoIssue(t)

-----------------------------------------------------------------------------
(* Listing                                                                 *)

\* The file is absent, unparsable or empty
Unusable(file) ==
    \/ file = Absent
    \/ file.kind \in {"invalid", "null"}
    \/ (file.kind = "map" /\ file.map = EmptyMap)

\* Field k is missing: the file is unusable, or a mapping without the key
FieldMissing(file, k) == Unusable(file) \/ (file.kind = "map" /\ ~MapHas(file.map, k))

\* A retry field is missing: under its key `new` of a retry_policy dict, or,
\* with no retry_policy, under its legacy key at the top of dagster.yaml
RetryMissing(file, new, legacy) ==
    \/ Unusable(file)
    \/ /\ file.kind = "map"
       /\ IF MapHas(file.map, "retry_policy")
          THEN /\ IsDict(file.map.val["retry_policy"])
               /\ new \notin DOMAIN file.map.val["retry_policy"]
          ELSE ~MapHas(file.map, legacy)

\* The entries a finished listing holds for the pipeline of a tool
ListedEntries(t) ==
    IF out.fn = "http_list" THEN out.value[t] ELSE out.value.rows[t]

\* The listing was asked for every pipeline of the tool
ListsAll(t) ==
    \/ out.fn = "http_list"
    \/ out.fn = "cli_list" /\ out.value.tool \in {t, "all"} /\ out.value.enabled = NONE

\* Entry e carries value v under key k
Carries(e, k, v) == k \in DOMAIN e /\ e[k] = v

\* C17: a listing of every pipeline holds one entry for each pipeline
\* directory; the entry has enabled = true when dagster.yaml does not give
\* it, source and destination = 'unknown' when config.yaml does not give
\* them, and, in the HTTP listing, retries 2, retry_delay 30, retry_backoff
\* LINEAR and no retry_jitter for each retry field dagster.yaml does not
\* give.
C17_ListDefaults ==
    (out.done /\ out.fn \in {"cli_list", "http_list"}) =>
        \A t \in Tools :
            (Exists(vtree[t]) /\ ListsAll(t)) =>
                LET dagster == vtree[t].files["dagster.yaml"]
                    config == vtree[t].files["config.yaml"]
                IN /\ Len(ListedEntries(t)) = 1
                   /\ LET e == ListedEntries(t)[1]
                      IN /\ e.name = VName
                         /\ FieldMissing(dagster, "enabled") => e.enabled = YTrue
                         /\ FieldMissing(config, "source_type") => e.source = S_unknown
                         /\ FieldMissing(config, "destination_type") =>
                               e.destination = S_unknown
                         /\ out.fn = "http_list" =>
                               /\ RetryMissing(dagster, "max_retries", "retries") =>
                                     Carries(e, "retries", DefaultRetries)
                               /\ RetryMissing(dagster, "delay", "retry_delay") =>
                                     Carries(e, "retry_delay", DefaultRetryDelay)
                               /\ RetryMissing(dagster, "backoff", "retry_backoff") =>
                                     Carries(e, "retry_backoff", "LINEAR")
                               /\ RetryMissing(dagster, "jitter", "retry_jitter") =>
                                     Carries(e, "retry_jitter", NONE)

-----------------------------------------------------------------------------
(* Version control                                                         *)

\* The filesystem change of the command in record c is in place in tree
MutationInPlace(tree, c) ==
    CASE c.op = "create" ->
            Exists(tree[c.tool][c.name]) /\ HasAllArtifacts(c.tool, tree[c.tool][c.name])
      [] c.op = "toggle" ->
            /\ Exists(tree[c.tool][c.name])
            /\ Descriptor(tree, c.tool, c.name).kind = "map"
            /\ MapGet(Descriptor(tree, c.tool, c.name).map, "enabled", "none") = c.arg
      [] c.op = "delete" -> ~Exists(tree[c.tool][c.name])

\* C14: a CLI create, enable/disable or delete run with git commit enabled
\* has made its filesystem change when it reaches its first git step; no git
\* step (opening the repository, add or remove, commit, push) changes the
\* tree, whether it succeeds or fails; and once past its filesystem change
\* the command never ends in a traceback: it ends normally, with a warning
\* when a git step failed.
C14_GitStep ==
    \A p \in Procs :
        /\ (cli[p].pc \notin VcPcs /\ cli'[p].pc = "vc_open") =>
              MutationInPlace(fs', cli'[p])
        /\ (cli[p].pc \in VcPcs /\ cli'[p] # cli[p]) =>
              /\ fs' = fs
              /\ cli'[p].exit # "traceback"
              /\ cli'[p].pc = "done" =>
                    /\ cli'[p].exit = "normal"
                    /\ cli'[p].status = "ok"
              /\ (cli'[p].pc = "done" /\ cli[p].pc \in {"vc_stage", "vc_commit"}) =>
                    cli'[p].warning = "Git operation failed"
              /\ (cli'[p].pc = "done" /\ cli[p].pc = "vc_push") =>
                    /\ cli'[p].committed
                    /\ cli'[p].warning \in {"none", "Could not push"}
                    /\ cli'[p].pushed => cli'[p].warning = "none"

C14_GitFailureNonFatal == [][C14_GitStep]_vars

\* A create whose commit failed has ended normally with the warning, and the
\* directory it wrote is still there in full
C14_Witness ==
    \E p \in Procs :
        /\ cli[p].pc = "done"
        /\ cli[p].op = "create"
        /\ cli[p].status = "ok"
        /\ cli[p].exit = "normal"
        /\ cli[p].warning = "Git operation failed"
        /\ MutationInPlace(fs, cli[p])
        /\ \A q \in Procs \ {p} : cli[q].pc = "idle"

-----------------------------------------------------------------------------
(* Unsynchronized writers                                                  *)

\* What the write step of command c stores: its change applied to the file
\* it read
WrittenFromRead(c) ==
    IF c.op = "toggle" THEN set_enabled(c.read, c.arg) ELSE update_metadata(c.read, c.arg)

\* C15: the writers of a dagster.yaml are unsynchronized read-then-write
\* sequences.  The write step of a toggle or metadata update stores its own
\* change applied to the file as the command read it, whatever another
\* process has written since, and so drops that process's change; when the
\* directory was removed since the read, the write step, like a write step
\* of create_pipeline, fails on the missing directory and does not bring it
\* back.
C15_RaceStep ==
    \A p \in Procs :
        /\ (cli[p].pc = "write" /\ cli'[p].pc = "done") =>
              IF Exists(fs[cli[p].tool][cli[p].name])
              THEN /\ cli'[p].status = "ok"
                   /\ Descriptor(fs', cli[p].tool, cli[p].name) = WrittenFromRead(cli[p])
              ELSE /\ cli'[p].status = "error"
                   /\ cli'[p].error = "FileNotFoundError"
                   /\ fs' = fs
        /\ (/\ cli[p].pc = "create"
            /\ cli[p].step >= 1
            /\ cli'[p] # cli[p]
            /\ ~Exists(fs[cli[p].tool][cli[p].name])) =>
              /\ cli'[p].status = "error"
              /\ cli'[p].error = "FileNotFoundError"
              /\ fs' = fs

C15_UnsynchronizedWriters == [][C15_RaceStep]_vars

\* Lost update: a metadata update that set a description and a toggle, the
\* only two commands run, have both ended successfully, and dagster.yaml
\* does not hold the description
C15_Witness ==
    \E p \in Procs, q \in Procs :
        /\ nops = 2
        /\ cli[p].pc = "done" /\ cli[p].op = "metadata" /\ cli[p].status = "ok"
        /\ cli[q].pc = "done" /\ cli[q].op = "toggle" /\ cli[q].status = "ok"
        /\ cli[p].tool = cli[q].tool
        /\ Filled(cli[p].arg, "description")
        /\ Exists(fs[cli[p].tool][cli[p].name])
        /\ MapGet(Descriptor(fs, cli[p].tool, cli[p].name).map, "description", NoText)
              # cli[p].arg["description"]

-----------------------------------------------------------------------------
(* The retry policy of a generated dagster.yaml                            *)

\* C21: every generated dagster.yaml has enabled = true and a retry_policy
\* with max_retries = request.retries and delay = request.retry_delay; it
\* has a backoff key exactly when retry_backoff is non-empty and not LINEAR,
\* and a jitter key exactly when retry_jitter is non-empty, each holding the
\* request's value; with the default retry settings the block is exactly
\* {max_retries: 2, delay: 30}.
C21_RetryPolicyBlock ==
    Described =>
        /\ MapGet(out.value, "enabled", "none") = YTrue
        /\ MapHas(out.value, "retry_policy")
        /\ LET r == out.value.val["retry_policy"]
           IN /\ {"max_retries", "delay"} \subseteq DOMAIN r
              /\ DOMAIN r \subseteq {"max_retries", "delay", "backoff", "jitter"}
              /\ r["max_retries"] = req.retries
              /\ r["delay"] = req.retry_delay
              /\ "backoff" \in DOMAIN r <=> req.retry_backoff \notin {"", "LINEAR"}
              /\ "backoff" \in DOMAIN r => r["backoff"] = req.retry_backoff
              /\ "jitter" \in DOMAIN r <=> req.retry_jitter \notin {NONE, ""}
              /\ "jitter" \in DOMAIN r => r["jitter"] = req.retry_jitter
              /\ (/\ req.retries = DefaultRetries
                  /\ req.retry_delay = DefaultRetryDelay
                  /\ req.retry_backoff = "LINEAR"
                  /\ req.retry_jitter = NONE) =>
                    r = [max_retries |-> 2, delay |-> 30]

\* A request with five retries, the default LINEAR backoff and a jitter has
\* been described
C21_Witness ==
    /\ Described
    /\ req.retries = 5
    /\ req.retry_delay = 60
    /\ req.retry_backoff = "LINEAR"
    /\ req.retry_jitter = "FULL"
    /\ DOMAIN out.value.val["retry_policy"] = {"max_retries", "delay", "jitter"}

-----------------------------------------------------------------------------
(* Generated pipelines under validate                                      *)

\* What validate says of a pipeline directory of a tool
ValidatorResult(tool, name, dir) ==
    IF tool = "dlt" THEN validate_dlt_pipeline(name, dir)
    ELSE validate_sling_pipeline(name, dir)

\* C22: for every request that names a source and either tool, validate has
\* no issue to report for the pipeline directory create_pipeline has just
\* written.
C22_GeneratedPassesValidate ==
    (/\ out.done
     /\ out.fn = "create_pipeline"
     /\ ~Raised(out.value.dir)
     /\ req.source_type # <<>>) =>
        LET result == ValidatorResult(out.value.tool, req.name, out.value.dir)
        IN ~Raised(result) /\ result.list = <<>>

-----------------------------------------------------------------------------
(* Regeneration                                                            *)

\* create_pipeline, run for a directory that existed, has just written
\* dagster.yaml
Regenerated ==
    /\ gen.active
    /\ gen.existed
    /\ gen.step = 4
    /\ gen'.active
    /\ gen'.step = 5

\* The dagster.yaml a regeneration has just written has enabled = true and
\* is the one a fresh create of the request would write
RegeneratedEnabled ==
    /\ Descriptor(fs', gen.tool, gen.name).kind = "map"
    /\ MapGet(Descriptor(fs', gen.tool, gen.name).map, "enabled", "none") = YTrue
    /\ Descriptor(fs', gen.tool, gen.name) =
          yaml_dump(generate_dagster_yaml(gen.request, today))

\* A regeneration has ended: the handler replies
RegenerationEnded == gen.active /\ gen.existed /\ ~gen'.active

\* C23: for every request, an HTTP PUT update, or a CLI create confirmed as
\* overwrite, of an existing pipeline gets to write dagster.yaml unless the
\* filesystem fails, and the dagster.yaml it writes has enabled = true,
\* whatever the flag was before.
C23_RegenStep ==
    /\ Regenerated => RegeneratedEnabled
    /\ (RegenerationEnded /\ ~fserr /\ ~fserr') => last'.status = "ok"

C23_RegenerateEnables == [][C23_RegenStep]_vars

-----------------------------------------------------------------------------
(* Errors of POST /api/pipelines                                           *)

\* POST /api/pipelines, having got past its existence test, answers with an
\* error
HttpCreateFailed ==
    /\ gen.active
    /\ gen.via = "http"
    /\ gen.op = "create"
    /\ ~gen'.active
    /\ last'.status # "ok"

\* C24: when POST /api/pipelines answers with an error, it has created
\* nothing: a request refused because the directory exists leaves the tree
\* as it was, and a request that failed later leaves no directory for its
\* name, so that the same request sent again is not refused as existing.
C24_ErrorStep ==
    /\ (Replied("create") /\ last'.via = "http" /\ last'.status # "ok") => fs' = fs
    /\ HttpCreateFailed => ~Exists(fs'[gen.tool][gen.name])

C24_ErrorLeavesNothing == [][C24_ErrorStep]_vars

-----------------------------------------------------------------------------
(* The enabled flag as a boolean                                           *)

\* The enabled value stored in a directory's dagster.yaml, YTrue where the
\* file is absent or has no such key
StoredEnabled(dir) ==
    LET file == dir.files["dagster.yaml"]
    IN IF file.kind = "map" THEN MapGet(file.map, "enabled", YTrue) ELSE YTrue

\* `elt list` with the filter set to flag shows the pipeline
ShownWith(tool, name, flag) ==
    cli_pipeline_info(name, fs[tool][name], tool).enabled = flag

\* C25: after any sequence of create, update, CLI enable/disable, HTTP
\* toggle and HTTP metadata update, the enabled value stored in every
\* dagster.yaml is a boolean, and every pipeline is shown by exactly one of
\* `list --enabled` and `list --disabled`.
C25_EnabledIsBoolean ==
    \A t \in Tools, n \in Names :
        Exists(fs[t][n]) =>
            /\ StoredEnabled(fs[t][n]) \in {YTrue, YFalse}
            /\ ShownWith(t, n, YTrue) # ShownWith(t, n, YFalse)

-----------------------------------------------------------------------------
(* The frame of the HTTP metadata update                                   *)

\* The keys of dagster.yaml the metadata update may write
MetadataWritten == MetadataFields \cup {"enabled"}

\* The files of the directory other than dagster.yaml are as they were
OtherFilesUnchanged(tool, name) ==
    \A f \in FileNames \ {"dagster.yaml"} :
        fs'[tool][name].files[f] = fs[tool][name].files[f]

\* C26: PUT .../metadata on an existing pipeline rewrites only enabled,
\* description, group, owners, tags, kinds and retry_policy of dagster.yaml:
\* every other key (schedule, partitions, incremental) keeps its value, and
\* config.yaml, README.md, the program or replication artifact and every
\* other directory are untouched; with a field absent from the body, enabled
\* becomes true, group 'default', retry_policy {max_retries: 2, delay: 30},
\* and description, owners, tags and kinds are removed.
C26_MetadataStep ==
    (Replied("metadata") /\ Exists(fs[last'.tool][last'.name])) =>
        LET tool == last'.tool
            name == last'.name
            old == Descriptor(fs, tool, name)
            new == Descriptor(fs', tool, name)
            body == last'.arg
        IN /\ Exists(fs'[tool][name])
           /\ OtherFilesUnchanged(tool, name)
           /\ OtherDirsUnchanged(tool, name)
           /\ last'.status # "ok" => new = old
           /\ (last'.status = "ok" /\ old.kind = "map") =>
                 \A k \in {"schedule", "partitions", "incremental"}
                          \cup ((DOMAIN old.map.val \cup DOMAIN new.map.val)
                                \ MetadataWritten) :
                     SameKey(old.map, new.map, k)
           /\ last'.status = "ok" =>
                 /\ new.kind = "map"
                 /\ "enabled" \notin DOMAIN body => new.map.val["enabled"] = YTrue
                 /\ "group_name" \notin DOMAIN body =>
                       new.map.val["group"] = "default"
                 /\ ({"retries", "retry_delay", "retry_backoff", "retry_jitter"}
                       \cap DOMAIN body = {}) =>
                       new.map.val["retry_policy"] =
                          [max_retries |-> DefaultRetries, delay |-> DefaultRetryDelay]
                 /\ \A k \in {"description", "owners", "tags", "kinds"} :
                       k \notin DOMAIN body => ~MapHas(new.map, k)

-----------------------------------------------------------------------------
(* The directory path against the artifact contents                        *)

\* The tool chosen for the source and destination recorded in config.yaml
RecordedTool(config) ==
    choose_tool(config.map.val["source_type"], config.map.val["destination_type"])

\* C27: for every pipeline directory pipelines/<tool>/<name> that creates
\* and updates have left behind, <tool> is the tool choose_tool gives for
\* the source recorded in config.yaml, and the pipeline name in README.md
\* is <name>; stated for the runs in which no write has failed.
C27_PathAgreesWithArtifacts ==
    (~gen.active /\ ~fserr) =>
        \A t \in Tools, n \in Names :
            LET dir == fs[t][n]
            IN (Exists(dir) /\ HasAllArtifacts(t, dir)) =>
                  /\ dir.files["config.yaml"].kind = "map"
                  /\ RecordedTool(dir.files["config.yaml"]) = t
                  /\ dir.files["README.md"].title = n

-----------------------------------------------------------------------------
(* Not-found replies                                                       *)

\* The handler that has just replied was given a name with no pipeline
\* directory, or one whose directory has no dagster.yaml; the CLI looks the
\* name up with find, the HTTP handlers take the tool from the URL
NoDescriptorFor(call) ==
    LET tool == IF call.via = "cli" THEN find(fs, call.name) ELSE call.tool
    IN \/ tool = "NotFound"
       \/ ~Exists(fs[tool][call.name])
       \/ Descriptor(fs, tool, call.name) = Absent

\* C28: CLI enable/disable and HTTP toggle, given a name that has no
\* pipeline directory or whose directory has no dagster.yaml, report
\* not-found and change nothing on disk, so no dagster.yaml is created; CLI
\* delete of a name with no directory reports not-found and changes
\* nothing.
C28_NotFoundStep ==
    /\ (Replied("toggle") /\ NoDescriptorFor(last')) =>
          /\ last'.status = "not_found"
          /\ fs' = fs
    /\ (Replied("delete") /\ last'.via = "cli" /\ find(fs, last'.name) = "NotFound") =>
          /\ last'.status = "not_found"
          /\ fs' = fs

C28_NotFoundChangesNothing == [][C28_NotFoundStep]_vars

\* An HTTP toggle has just been answered not-found for a directory that
\* exists without a dagster.yaml, and none was created
C28_Witness ==
    /\ last.op = "toggle"
    /\ last.via = "http"
    /\ last.status = "not_found"
    /\ last.code = 404
    /\ Exists(fs[last.tool][last.name])
    /\ Descriptor(fs, last.tool, last.name) = Absent

-----------------------------------------------------------------------------
(* Readers of the retry settings                                           *)

\* The rows of the Retry Policy panel of `elt show`: the top-level keys
\* retries, retry_delay, retry_backoff and retry_jitter of dagster.yaml, a
\* Backoff or Jitter row only for a truthy value
show_retry_table(dagster_config) ==
    LET backoff == MapGet(dagster_config, "retry_backoff", NONE)
        jitter == MapGet(dagster_config, "retry_jitter", NONE)
    IN [retries |-> MapGet(dagster_config, "retries", DefaultRetries),
        retry_delay |-> MapGet(dagster_config, "retry_delay", DefaultRetryDelay),
        retry_backoff |-> IF Truthy(backoff) THEN backoff ELSE NONE,
        retry_jitter |-> IF Truthy(jitter) THEN jitter ELSE NONE]

\* The retry fields of GET .../metadata: the retry_policy block, then the
\* legacy top-level keys, then the defaults
metadata_retry_fields(config) ==
    LET retry_policy == MapGet(config, "retry_policy", EmptyDict)
    IN [retries |-> Get(retry_policy, "max_retries",
                        MapGet(config, "retries", DefaultRetries)),
        retry_delay |-> Get(retry_policy, "delay",
                            MapGet(config, "retry_delay", DefaultRetryDelay)),
        retry_backoff |-> Get(retry_policy, "backoff", "LINEAR"),
        retry_jitter |-> Get(retry_policy, "jitter", NONE)]

\* The retry settings of a request as a reader reports them; `elt show`
\* has no Backoff row to show for none
RetrySettings(request, backoff) ==
    [retries |-> request.retries,
     retry_delay |-> request.retry_delay,
     retry_backoff |-> backoff,
     retry_jitter |-> request.retry_jitter]

\* C29: for a pipeline generated from a request with retries r, retry_delay
\* d, retry_backoff b and retry_jitter j (b and j not the empty text), GET
\* /api/pipelines, GET .../metadata and `elt show` each report max retries
\* r, delay d, backoff b and jitter j, `elt show` leaving the backoff out
\* when it is LINEAR.
C29_RetryRoundTrip ==
    (Described /\ req.retry_backoff # "" /\ req.retry_jitter # "") =>
        LET web == WithRetryFields(EmptyDict, out.value)
            reported == RetrySettings(req, req.retry_backoff)
        IN /\ [k \in DOMAIN reported |-> web[k]] = reported
           /\ metadata_retry_fields(out.value) = reported
           /\ show_retry_table(out.value) =
                 RetrySettings(req, IF req.retry_backoff = "LINEAR" THEN NONE
                                    ELSE req.retry_backoff)

-----------------------------------------------------------------------------
(* The status of a refused POST /api/pipelines                             *)

\* POST /api/pipelines has just replied
PostReplied ==
    /\ last' # last
    /\ last'.op = "create"
    /\ last'.via = "http"

\* C30: POST /api/pipelines for a name whose pipeline directory exists is
\* answered with status 400, and status 500 is the answer only to a failure
\* during generation, after create_pipeline was entered.
C30_StatusStep ==
    /\ (Replied("create") /\ last'.via = "http"
          /\ Exists(fs[last'.tool][last'.name])) => last'.code = 400
    /\ (PostReplied /\ last'.code = 500) => gen.active

C30_ExistsIs400 == [][C30_StatusStep]_vars
====
